---- MODULE Spec2Model ----
(***************************************************************************)
(* Streaming shipment-file pipeline: chunked CSV parser, row validator,    *)
(* batched persister with retry, progress tracking and the streaming       *)
(* export reader (backend/src/parser.c, validator.c, server.c, db.c).      *)
(*                                                                         *)
(* A byte is a one-character string; a C string is a sequence of bytes     *)
(* without NUL.  A double is modelled by its value in thousandths (an      *)
(* integer); the inputs of the model carry at most three decimals.         *)
(***************************************************************************)
EXTENDS Integers, Sequences, FiniteSets, TLC

VARIABLES
    file,     \* the uploaded "file" part: its lines, and whether the last one
              \* ends with a line feed (what the client sends)
    sent,     \* how many bytes of the file were handed to the server so far
    conn,     \* position of the upload request: "new", "open", "responded", "closed"
    ctx,      \* struct RequestContext of the upload (server.c:12-22)
    db,       \* the document store: the shipments, errors and batches
              \* collections, and whether it ever rejected a call
    faults,   \* number of coming store calls the store will reject
    emitted,  \* history: the callbacks the parser made, in order
    flushes,  \* history: one entry per flush_batches call
    cuts,     \* history: the kinds of places where a chunk of the file ended
    ex,       \* struct ExportContext of the export request (db.c:589-601)
    out,      \* history: the bytes the export reader returned, concatenated
    last_read, \* history: max, return value and bytes of the last read call
    peer,     \* the requests of two uploads in flight at the same time, each
              \* with its file, position and struct RequestContext
    pool,     \* the client pool of db.c: handles checked out, export
              \* cursors open, and the history of the store operations made
    resp      \* the answer to the last GET request: url, batch_id argument,
              \* status and body

vars == <<file, sent, conn, ctx, db, faults, emitted, flushes, cuts, ex, out,
          last_read, peer, pool, resp>>

uploadVars == <<file, sent, conn, ctx, emitted, flushes, cuts>>
exportVars == <<ex, out, last_read>>
concVars == <<peer, pool, resp>>

-----------------------------------------------------------------------------
(* Bytes and <ctype.h>                                                     *)

LF == "\n"
CR == "\r"
QUOTE == "\""
COMMA == ","

Digits == <<"0", "1", "2", "3", "4", "5", "6", "7", "8", "9">>
Upper == <<"A", "B", "C", "D", "E", "F", "G", "H", "I", "J", "K", "L", "M",
           "N", "O", "P", "Q", "R", "S", "T", "U", "V", "W", "X", "Y", "Z">>
Lower == <<"a", "b", "c", "d", "e", "f", "g", "h", "i", "j", "k", "l", "m",
           "n", "o", "p", "q", "r", "s", "t", "u", "v", "w", "x", "y", "z">>

Range(s) == {s[i] : i \in DOMAIN s}

Min(a, b) == IF a < b THEN a ELSE b

isdigit(c) == c \in Range(Digits)
isalnum(c) == c \in Range(Digits) \cup Range(Upper) \cup Range(Lower)
isspace(c) == c \in {" ", "\t", LF, CR, "\f"}

DigitVal(c) == (CHOOSE i \in DOMAIN Digits : Digits[i] = c) - 1

tolower(c) ==
    IF c \in Range(Upper)
    THEN Lower[CHOOSE i \in DOMAIN Upper : Upper[i] = c]
    ELSE c

\* strncpy(dst, src, n) into a zeroed array of more than n bytes
strncpy(src, n) == SubSeq(src, 1, Min(Len(src), n))

\* strcasecmp(a, b) == 0
strcasecmp_eq(a, b) ==
    /\ Len(a) = Len(b)
    /\ \A i \in DOMAIN a : tolower(a[i]) = tolower(b[i])

RECURSIVE SkipSpace(_, _)
SkipSpace(s, i) ==
    IF i <= Len(s) /\ isspace(s[i]) THEN SkipSpace(s, i + 1) ELSE i

RECURSIVE DigitRun(_, _, _)
\* value of the decimal digits from s[i] on; stops at the first non-digit
DigitRun(s, i, acc) ==
    IF i <= Len(s) /\ isdigit(s[i])
    THEN DigitRun(s, i + 1, acc * 10 + DigitVal(s[i]))
    ELSE [val |-> acc, next |-> i]

\* atoi(s + off): optional white space, optional sign, digits
atoi(s, off) ==
    LET i == SkipSpace(s, off + 1)
        neg == i <= Len(s) /\ s[i] = "-"
        j == IF i <= Len(s) /\ s[i] \in {"-", "+"} THEN i + 1 ELSE i
        v == DigitRun(s, j, 0).val
    IN IF neg THEN 0 - v ELSE v

RECURSIVE FracRun(_, _, _, _)
\* thousandths given by at most three decimals from s[i] on
FracRun(s, i, acc, scale) ==
    IF i <= Len(s) /\ isdigit(s[i]) /\ scale > 0
    THEN FracRun(s, i + 1, acc + DigitVal(s[i]) * scale, scale \div 10)
    ELSE acc

\* atof(s) in thousandths: white space, sign, digits, '.', digits; 0 when
\* no number starts the string
atof(s) ==
    LET i == SkipSpace(s, 1)
        neg == i <= Len(s) /\ s[i] = "-"
        j == IF i <= Len(s) /\ s[i] \in {"-", "+"} THEN i + 1 ELSE i
        ip == DigitRun(s, j, 0)
        fr == IF ip.next <= Len(s) /\ s[ip.next] = "."
              THEN FracRun(s, ip.next + 1, 0, 100)
              ELSE 0
        v == ip.val * 1000 + fr
    IN IF neg THEN 0 - v ELSE v

-----------------------------------------------------------------------------
(* parser.c                                                                *)

\* Length of the carry-over line the model allows (MAX_LINE_LENGTH is 4096
\* in common.h:10; the model scales it down so that a too long line occurs).
MAX_LINE_LENGTH == 96

RECURSIVE TrimLeft(_)
TrimLeft(s) == IF s /= <<>> /\ isspace(Head(s)) THEN TrimLeft(Tail(s)) ELSE s

RECURSIVE TrimRight(_)
TrimRight(s) ==
    IF Len(s) > 1 /\ isspace(s[Len(s)])
    THEN TrimRight(SubSeq(s, 1, Len(s) - 1))
    ELSE s

trim_whitespace(s) ==
    LET t == TrimLeft(s) IN IF t = <<>> THEN t ELSE TrimRight(t)

RECURSIVE ScanField(_, _, _, _)
\* the scan of parse_csv_line from read_ptr = i up to the comma that ends the
\* field (or the end of the line): quotes removed, "" unescaped inside quotes
ScanField(line, i, in_quote, cur) ==
    IF i > Len(line) THEN [val |-> cur, next |-> i, comma |-> FALSE]
    ELSE IF in_quote
    THEN IF line[i] = QUOTE
         THEN IF i + 1 <= Len(line) /\ line[i + 1] = QUOTE
              THEN ScanField(line, i + 2, TRUE, Append(cur, QUOTE))
              ELSE ScanField(line, i + 1, FALSE, cur)
         ELSE ScanField(line, i + 1, TRUE, Append(cur, line[i]))
    ELSE IF line[i] = QUOTE
         THEN ScanField(line, i + 1, TRUE, cur)
         ELSE IF line[i] = COMMA
              THEN [val |-> cur, next |-> i + 1, comma |-> TRUE]
              ELSE ScanField(line, i + 1, FALSE, Append(cur, line[i]))

RECURSIVE SplitFields(_, _, _)
\* the while loop of parse_csv_line, one field per step: the fields of line
SplitFields(line, i, fields) ==
    LET f == ScanField(line, i, FALSE, <<>>)
    IN IF f.comma
       THEN SplitFields(line, f.next, Append(fields, f.val))
       ELSE Append(fields, f.val)

\* memset(&record, 0, sizeof(record)) with row_number and batch_id set
EmptyRecord(row, batch_id) ==
    [tracking_number |-> <<>>, origin |-> <<>>, destination |-> <<>>,
     weight_kg |-> 0, length_cm |-> 0, width_cm |-> 0, height_cm |-> 0,
     ship_date |-> <<>>, status |-> <<>>,
     row_number |-> row, batch_id |-> batch_id]

\* parse_csv_line(line, record): ret 0 with the record filled, or ret -1
parse_csv_line(line, record) ==
    LET fields == SplitFields(line, 1, <<>>)
        field_count == Min(Len(fields), 10)
    IN IF field_count < 7
       THEN [ret |-> -1, record |-> record]
       ELSE [ret |-> 0,
             record |->
               [record EXCEPT
                  !.tracking_number = strncpy(trim_whitespace(fields[1]), 63),
                  !.origin = strncpy(trim_whitespace(fields[2]), 127),
                  !.destination = strncpy(trim_whitespace(fields[3]), 127),
                  !.weight_kg = atof(fields[4]),
                  !.length_cm = atof(fields[5]),
                  !.width_cm = atof(fields[6]),
                  !.height_cm = atof(fields[7]),
                  !.ship_date = IF field_count >= 8
                                THEN strncpy(trim_whitespace(fields[8]), 31)
                                ELSE strncpy(trim_whitespace(fields[5]), 31),
                  !.status = IF field_count >= 9
                             THEN strncpy(trim_whitespace(fields[9]), 31)
                             ELSE <<>>]]

-----------------------------------------------------------------------------
(* validator.c                                                             *)

is_alphanumeric(str) == \A i \in DOMAIN str : isalnum(str[i])

\* is_valid_iso8601_date(date)
is_valid_iso8601_date(date) ==
    /\ Len(date) = 10
    /\ date[5] = "-" /\ date[8] = "-"
    /\ LET year == atoi(date, 0)
           month == atoi(date, 5)
           day == atoi(date, 8)
           is_leap == (year % 4 = 0 /\ year % 100 /= 0) \/ (year % 400 = 0)
       IN /\ ~(year < 1900 \/ year > 2100)
          /\ ~(month < 1 \/ month > 12)
          /\ ~(day < 1 \/ day > 31)
          /\ IF month = 2
             THEN ~(day > (IF is_leap THEN 29 ELSE 28))
             ELSE IF month \in {4, 6, 9, 11} THEN ~(day > 30) ELSE TRUE

valid_statuses ==
    << <<"p","e","n","d","i","n","g">>,
       <<"i","n","_","t","r","a","n","s","i","t">>,
       <<"d","e","l","i","v","e","r","e","d">>,
       <<"r","e","t","u","r","n","e","d">>,
       <<"l","o","s","t">> >>

ValidationError(record, field, actual) ==
    [row_number |-> record.row_number, field |-> field,
     actual |-> actual, batch_id |-> record.batch_id]

RECURSIVE UIntChars(_)
UIntChars(n) ==
    IF n < 10 THEN <<Digits[n + 1]>>
    ELSE Append(UIntChars(n \div 10), Digits[(n % 10) + 1])

\* sprintf(buf, "%f", v): sign, integer part, '.', six decimals
sprintf_f(v) ==
    LET a == IF v < 0 THEN 0 - v ELSE v
        fr == a % 1000
    IN (IF v < 0 THEN <<"-">> ELSE <<>>) \o UIntChars(a \div 1000) \o <<".">>
       \o <<Digits[(fr \div 100) + 1], Digits[((fr \div 10) % 10) + 1],
            Digits[(fr % 10) + 1], "0", "0", "0">>

\* validate_record(record, &error): [ok, error]
validate_record(record) ==
    LET Bad(f, a) == [ok |-> FALSE, error |-> ValidationError(record, f, a)]
        tn_len == Len(record.tracking_number)
    IN IF tn_len < 10 \/ tn_len > 30
       THEN Bad("tracking_number", strncpy(record.tracking_number, 1023))
       ELSE IF ~is_alphanumeric(record.tracking_number)
       THEN Bad("tracking_number", strncpy(record.tracking_number, 1023))
       ELSE IF Len(record.origin) = 0
       THEN Bad("origin", <<"E","m","p","t","y">>)
       ELSE IF Len(record.destination) = 0
       THEN Bad("destination", <<"E","m","p","t","y">>)
       ELSE IF record.weight_kg <= 0
       THEN Bad("weight_kg", sprintf_f(record.weight_kg))
       ELSE IF record.length_cm < 0
       THEN Bad("length_cm", sprintf_f(record.length_cm))
       ELSE IF record.width_cm < 0
       THEN Bad("width_cm", sprintf_f(record.width_cm))
       ELSE IF record.height_cm < 0
       THEN Bad("height_cm", sprintf_f(record.height_cm))
       ELSE IF ~is_valid_iso8601_date(record.ship_date)
       THEN Bad("ship_date", strncpy(record.ship_date, 1023))
       ELSE IF Len(record.status) > 0
               /\ ~\E i \in DOMAIN valid_statuses :
                      strcasecmp_eq(record.status, valid_statuses[i])
       THEN Bad("status", strncpy(record.status, 1023))
       ELSE [ok |-> TRUE, error |-> ValidationError(record, "", <<>>)]

-----------------------------------------------------------------------------
(* db.c: bulk inserts and the progress upsert, with their retry loops      *)

\* enum BatchStatus (common.h:40-47)
STATUS_UPLOADING == 0
STATUS_PARSING == 1
STATUS_VALIDATING == 2
STATUS_INSERTING == 3
STATUS_COMPLETE == 4
STATUS_FAILED == 5

RECURSIVE RetryLoop_no_doubling(_, _, _, _)
\* a retry loop whose delay stays at its first value
RetryLoop_no_doubling(attempt, delay_sec, f, sleeps) ==
    IF ~(attempt < 5)
    THEN [ret |-> FALSE, faults |-> f, sleeps |-> sleeps, attempts |-> attempt]
    ELSE IF f = 0
    THEN [ret |-> TRUE, faults |-> f, sleeps |-> sleeps, attempts |-> attempt + 1]
    ELSE RetryLoop_no_doubling(attempt + 1, delay_sec, f - 1,
                               Append(sleeps, delay_sec))

RECURSIVE RetryLoop_until_accepted(_, _, _, _)
\* a retry loop that goes on until the store accepts the call
RetryLoop_until_accepted(attempt, delay_sec, f, sleeps) ==
    IF f = 0
    THEN [ret |-> TRUE, faults |-> f, sleeps |-> sleeps, attempts |-> attempt + 1]
    ELSE RetryLoop_until_accepted(attempt + 1,
                                  IF delay_sec * 2 > 30 THEN 30 ELSE delay_sec * 2,
                                  f - 1, Append(sleeps, delay_sec))

RECURSIVE RetryLoop(_, _, _, _)
\* for (attempt = 0; attempt < 5; attempt++) { ret = execute(); if (ret) break;
\*   sleep(delay_sec); delay_sec *= 2; if (delay_sec > 30) delay_sec = 30; }
\* The store rejects a call while f > 0; a rejected call changes nothing.
RetryLoop(attempt, delay_sec, f, sleeps) ==
    IF ~(attempt < 5)
    THEN [ret |-> FALSE, faults |-> f, sleeps |-> sleeps, attempts |-> attempt]
    ELSE IF f = 0
    THEN [ret |-> TRUE, faults |-> f, sleeps |-> sleeps, attempts |-> attempt + 1]
    ELSE RetryLoop(attempt + 1,
                   IF delay_sec * 2 > 30 THEN 30 ELSE delay_sec * 2,
                   f - 1, Append(sleeps, delay_sec))

\* the document db_insert_records builds for records[i] (inserted_at left out)
ShipmentDoc(batch_id, r) == [r EXCEPT !.batch_id = batch_id]

\* the document db_insert_errors builds for errors[i]
ErrorDoc(batch_id, e) == [e EXCEPT !.batch_id = batch_id]

\* a bulk insert that reports success after a retry without having stored
\* the documents
db_insert_records_lossy_retry(d, f, batch_id, records) ==
    IF Len(records) = 0
    THEN [ret |-> 0, db |-> d, faults |-> f, sleeps |-> <<>>, attempts |-> 0]
    ELSE LET r == RetryLoop(0, 1, f, <<>>)
             docs == [i \in DOMAIN records |-> ShipmentDoc(batch_id, records[i])]
         IN [ret |-> IF r.ret THEN 0 ELSE -1,
             db |-> IF r.ret /\ r.sleeps = <<>>
                    THEN [d EXCEPT !.shipments = @ \o docs]
                    ELSE [d EXCEPT !.rejected = @ \/ r.sleeps /= <<>>],
             faults |-> r.faults, sleeps |-> r.sleeps, attempts |-> r.attempts]

\* db_insert_records(batch_id, records, count): [ret, db, faults, sleeps, attempts]
db_insert_records(d, f, batch_id, records) ==
    IF Len(records) = 0
    THEN [ret |-> 0, db |-> d, faults |-> f, sleeps |-> <<>>, attempts |-> 0]
    ELSE LET r == RetryLoop(0, 1, f, <<>>)
             docs == [i \in DOMAIN records |-> ShipmentDoc(batch_id, records[i])]
         IN [ret |-> IF r.ret THEN 0 ELSE -1,
             db |-> IF r.ret
                    THEN [d EXCEPT !.shipments = @ \o docs,
                                   !.rejected = @ \/ r.sleeps /= <<>>]
                    ELSE [d EXCEPT !.rejected = @ \/ r.sleeps /= <<>>],
             faults |-> r.faults, sleeps |-> r.sleeps, attempts |-> r.attempts]

\* db_insert_errors(batch_id, errors, count): [ret, db, faults, sleeps, attempts]
db_insert_errors(d, f, batch_id, errors) ==
    IF Len(errors) = 0
    THEN [ret |-> 0, db |-> d, faults |-> f, sleeps |-> <<>>, attempts |-> 0]
    ELSE LET r == RetryLoop(0, 1, f, <<>>)
             docs == [i \in DOMAIN errors |-> ErrorDoc(batch_id, errors[i])]
         IN [ret |-> IF r.ret THEN 0 ELSE -1,
             db |-> IF r.ret
                    THEN [d EXCEPT !.errors = @ \o docs,
                                   !.rejected = @ \/ r.sleeps /= <<>>]
                    ELSE [d EXCEPT !.rejected = @ \/ r.sleeps /= <<>>],
             faults |-> r.faults, sleeps |-> r.sleeps, attempts |-> r.attempts]

\* db_update_progress(batch_id, progress): update_one with upsert, selector
\* {batch_id}, $set of the four counters and the status as an integer
db_update_progress(d, f, batch_id, progress) ==
    LET r == RetryLoop(0, 1, f, <<>>)
        doc == [batch_id |-> batch_id,
                total_rows |-> progress.total_rows,
                processed_rows |-> progress.processed_rows,
                valid_rows |-> progress.valid_rows,
                invalid_rows |-> progress.invalid_rows,
                status |-> progress.status]
    IN [ret |-> IF r.ret THEN 0 ELSE -1,
        db |-> IF r.ret
               THEN [d EXCEPT !.batches =
                        {b \in @ : b.batch_id /= batch_id} \cup {doc},
                              !.rejected = @ \/ r.sleeps /= <<>>]
               ELSE [d EXCEPT !.rejected = @ \/ r.sleeps /= <<>>],
        faults |-> r.faults, sleeps |-> r.sleeps, attempts |-> r.attempts]

-----------------------------------------------------------------------------
(* server.c: the upload pipeline.  The operators below take and return the *)
(* "world" w = [ctx, db, faults, emitted, flushes] a handler works on.     *)

\* Slots of record_batch / error_batch the model allows (500 in
\* server.c:17-20 and server.c:94, scaled down).
BATCH_CAPACITY == 2

\* a flush that inserts the buffers and leaves the progress document alone
flush_batches_no_upsert(w) ==
    LET c == w.ctx
        r1 == db_insert_records(w.db, w.faults, c.batch_id, c.record_batch)
        r2 == db_insert_errors(r1.db, r1.faults, c.batch_id, c.error_batch)
        entry == [rows |-> [i \in DOMAIN c.record_batch |-> c.record_batch[i].row_number],
                  rec_ret |-> r1.ret, rec_sleeps |-> r1.sleeps,
                  rec_attempts |-> r1.attempts, err_attempts |-> r2.attempts,
                  error_rows |-> [i \in DOMAIN c.error_batch |-> c.error_batch[i].row_number],
                  err_ret |-> r2.ret, err_sleeps |-> r2.sleeps,
                  p_ret |-> 0, p_sleeps |-> <<>>,
                  progress |-> c.progress]
    IN [w EXCEPT !.ctx.record_batch = <<>>,
                 !.ctx.error_batch = <<>>,
                 !.db = r2.db,
                 !.faults = r2.faults,
                 !.flushes = Append(@, entry)]

\* a flush that submits the record buffer and does not empty it
flush_batches_keep_records(w) ==
    LET c == w.ctx
        r1 == db_insert_records(w.db, w.faults, c.batch_id, c.record_batch)
        r2 == db_insert_errors(r1.db, r1.faults, c.batch_id, c.error_batch)
        p == db_update_progress(r2.db, r2.faults, c.batch_id, c.progress)
        entry == [rows |-> [i \in DOMAIN c.record_batch |-> c.record_batch[i].row_number],
                  rec_ret |-> r1.ret, rec_sleeps |-> r1.sleeps,
                  rec_attempts |-> r1.attempts, err_attempts |-> r2.attempts,
                  error_rows |-> [i \in DOMAIN c.error_batch |-> c.error_batch[i].row_number],
                  err_ret |-> r2.ret, err_sleeps |-> r2.sleeps,
                  p_ret |-> p.ret, p_sleeps |-> p.sleeps,
                  progress |-> c.progress]
    IN [w EXCEPT !.ctx.error_batch = <<>>,
                 !.db = p.db,
                 !.faults = p.faults,
                 !.flushes = Append(@, entry)]

\* flush_batches(ctx)
flush_batches(w) ==
    LET c == w.ctx
        r1 == db_insert_records(w.db, w.faults, c.batch_id, c.record_batch)
        r2 == db_insert_errors(r1.db, r1.faults, c.batch_id, c.error_batch)
        p == db_update_progress(r2.db, r2.faults, c.batch_id, c.progress)
        entry == [rows |-> [i \in DOMAIN c.record_batch |-> c.record_batch[i].row_number],
                  rec_ret |-> r1.ret, rec_sleeps |-> r1.sleeps,
                  rec_attempts |-> r1.attempts, err_attempts |-> r2.attempts,
                  error_rows |-> [i \in DOMAIN c.error_batch |-> c.error_batch[i].row_number],
                  err_ret |-> r2.ret, err_sleeps |-> r2.sleeps,
                  p_ret |-> p.ret, p_sleeps |-> p.sleeps,
                  progress |-> c.progress]
    IN [w EXCEPT !.ctx.record_batch = <<>>,
                 !.ctx.error_batch = <<>>,
                 !.db = p.db,
                 !.faults = p.faults,
                 !.flushes = Append(@, entry)]

\* on_record_parsed with the invalid_rows increment of the else branch lost
on_record_parsed_no_invalid(w, record) ==
    LET v == validate_record(record)
        w1 == [w EXCEPT !.ctx.progress.total_rows = @ + 1,
                        !.ctx.progress.processed_rows = @ + 1]
        w2 == IF v.ok
              THEN [w1 EXCEPT !.ctx.progress.valid_rows = @ + 1,
                              !.ctx.record_batch = Append(@, record)]
              ELSE [w1 EXCEPT !.ctx.error_batch = Append(@, v.error)]
    IN IF Len(w2.ctx.record_batch) >= BATCH_CAPACITY
          \/ Len(w2.ctx.error_batch) >= BATCH_CAPACITY
       THEN flush_batches(w2)
       ELSE w2

\* on_record_parsed that buffers the record for shipments whatever the
\* validator returned
on_record_parsed_keep_invalid(w, record) ==
    LET v == validate_record(record)
        w1 == [w EXCEPT !.ctx.progress.total_rows = @ + 1,
                        !.ctx.progress.processed_rows = @ + 1]
        w2 == IF v.ok
              THEN [w1 EXCEPT !.ctx.progress.valid_rows = @ + 1,
                              !.ctx.record_batch = Append(@, record)]
              ELSE [w1 EXCEPT !.ctx.progress.invalid_rows = @ + 1,
                              !.ctx.record_batch = Append(@, record),
                              !.ctx.error_batch = Append(@, v.error)]
    IN IF Len(w2.ctx.record_batch) >= BATCH_CAPACITY
          \/ Len(w2.ctx.error_batch) >= BATCH_CAPACITY
       THEN flush_batches(w2)
       ELSE w2

\* on_record_parsed that flushes only when a buffer holds more than its
\* capacity
on_record_parsed_late_flush(w, record) ==
    LET v == validate_record(record)
        w1 == [w EXCEPT !.ctx.progress.total_rows = @ + 1,
                        !.ctx.progress.processed_rows = @ + 1]
        w2 == IF v.ok
              THEN [w1 EXCEPT !.ctx.progress.valid_rows = @ + 1,
                              !.ctx.record_batch = Append(@, record)]
              ELSE [w1 EXCEPT !.ctx.progress.invalid_rows = @ + 1,
                              !.ctx.error_batch = Append(@, v.error)]
    IN IF Len(w2.ctx.record_batch) > BATCH_CAPACITY
          \/ Len(w2.ctx.error_batch) > BATCH_CAPACITY
       THEN flush_batches(w2)
       ELSE w2

\* on_record_parsed(record, context)
on_record_parsed(w, record) ==
    LET v == validate_record(record)
        w1 == [w EXCEPT !.ctx.progress.total_rows = @ + 1,
                        !.ctx.progress.processed_rows = @ + 1]
        w2 == IF v.ok
              THEN [w1 EXCEPT !.ctx.progress.valid_rows = @ + 1,
                              !.ctx.record_batch = Append(@, record)]
              ELSE [w1 EXCEPT !.ctx.progress.invalid_rows = @ + 1,
                              !.ctx.error_batch = Append(@, v.error)]
    IN IF Len(w2.ctx.record_batch) >= BATCH_CAPACITY
          \/ Len(w2.ctx.error_batch) >= BATCH_CAPACITY
       THEN flush_batches(w2)
       ELSE w2

\* on_parser_error(row, msg, context)
on_parser_error(w, row, msg) == [w EXCEPT !.ctx.status_code = 400]

QuoteCount(buf) == Cardinality({k \in DOMAIN buf : buf[k] = QUOTE})

\* the line parser_process_chunk cuts out of the buffer at a line feed
StripEol(buf) ==
    LET n == Len(buf)
    IN IF n > 1 /\ buf[n - 1] = CR
       THEN SubSeq(buf, 1, n - 2)
       ELSE SubSeq(buf, 1, n - 1)

\* an iteration that does not count the row of a terminated line
ProcessByte_row_not_counted(w, c) ==
    LET p == w.ctx.parser
    IN IF ~(Len(p.buffer) < MAX_LINE_LENGTH - 1)
       THEN LET e == [kind |-> "error", row |-> p.current_row,
                      msg |-> "Line too long"]
                w1 == on_parser_error([w EXCEPT !.emitted = Append(@, e)],
                                      p.current_row, "Line too long")
            IN [w1 EXCEPT !.ctx.parser.buffer = <<>>]
       ELSE LET buf == Append(p.buffer, c)
                wb == [w EXCEPT !.ctx.parser.buffer = buf]
            IN IF c = LF /\ QuoteCount(buf) % 2 = 0
               THEN LET line == StripEol(buf)
                        row == p.current_row + 1
                        w1 == wb
                        r == parse_csv_line(line, EmptyRecord(row, p.batch_id))
                        e == IF r.ret = 0
                             THEN [kind |-> "record", row |-> row,
                                   record |-> r.record]
                             ELSE [kind |-> "error", row |-> row,
                                   msg |-> "Parse error: Invalid format"]
                        w2 == IF Len(line) > 0
                              THEN IF r.ret = 0
                                   THEN on_record_parsed(
                                          [w1 EXCEPT !.emitted = Append(@, e)],
                                          r.record)
                                   ELSE on_parser_error(
                                          [w1 EXCEPT !.emitted = Append(@, e)],
                                          row, "Parse error: Invalid format")
                              ELSE w1
                    IN [w2 EXCEPT !.ctx.parser.buffer = <<>>]
               ELSE wb

\* an iteration that ends the line at every line feed, quoted or not
ProcessByte_every_lf_ends(w, c) ==
    LET p == w.ctx.parser
    IN IF ~(Len(p.buffer) < MAX_LINE_LENGTH - 1)
       THEN LET e == [kind |-> "error", row |-> p.current_row,
                      msg |-> "Line too long"]
                w1 == on_parser_error([w EXCEPT !.emitted = Append(@, e)],
                                      p.current_row, "Line too long")
            IN [w1 EXCEPT !.ctx.parser.buffer = <<>>]
       ELSE LET buf == Append(p.buffer, c)
                wb == [w EXCEPT !.ctx.parser.buffer = buf]
            IN IF c = LF
               THEN LET line == StripEol(buf)
                        row == p.current_row + 1
                        w1 == [wb EXCEPT !.ctx.parser.current_row = row]
                        r == parse_csv_line(line, EmptyRecord(row, p.batch_id))
                        e == IF r.ret = 0
                             THEN [kind |-> "record", row |-> row,
                                   record |-> r.record]
                             ELSE [kind |-> "error", row |-> row,
                                   msg |-> "Parse error: Invalid format"]
                        w2 == IF Len(line) > 0
                              THEN IF r.ret = 0
                                   THEN on_record_parsed(
                                          [w1 EXCEPT !.emitted = Append(@, e)],
                                          r.record)
                                   ELSE on_parser_error(
                                          [w1 EXCEPT !.emitted = Append(@, e)],
                                          row, "Parse error: Invalid format")
                              ELSE w1
                    IN [w2 EXCEPT !.ctx.parser.buffer = <<>>]
               ELSE wb

\* one iteration of the loop of parser_process_chunk, on byte c
ProcessByte(w, c) ==
    LET p == w.ctx.parser
    IN IF ~(Len(p.buffer) < MAX_LINE_LENGTH - 1)
       THEN LET e == [kind |-> "error", row |-> p.current_row,
                      msg |-> "Line too long"]
                w1 == on_parser_error([w EXCEPT !.emitted = Append(@, e)],
                                      p.current_row, "Line too long")
            IN [w1 EXCEPT !.ctx.parser.buffer = <<>>]
       ELSE LET buf == Append(p.buffer, c)
                wb == [w EXCEPT !.ctx.parser.buffer = buf]
            IN IF c = LF /\ QuoteCount(buf) % 2 = 0
               THEN LET line == StripEol(buf)
                        row == p.current_row + 1
                        w1 == [wb EXCEPT !.ctx.parser.current_row = row]
                        r == parse_csv_line(line, EmptyRecord(row, p.batch_id))
                        e == IF r.ret = 0
                             THEN [kind |-> "record", row |-> row,
                                   record |-> r.record]
                             ELSE [kind |-> "error", row |-> row,
                                   msg |-> "Parse error: Invalid format"]
                        w2 == IF Len(line) > 0
                              THEN IF r.ret = 0
                                   THEN on_record_parsed(
                                          [w1 EXCEPT !.emitted = Append(@, e)],
                                          r.record)
                                   ELSE on_parser_error(
                                          [w1 EXCEPT !.emitted = Append(@, e)],
                                          row, "Parse error: Invalid format")
                              ELSE w1
                    IN [w2 EXCEPT !.ctx.parser.buffer = <<>>]
               ELSE wb

RECURSIVE ChunkLoop(_, _)
\* for (i = 0; i < length; i++): the bytes of chunk in order (the left half,
\* then the right half)
ChunkLoop(w, chunk) ==
    IF chunk = <<>> THEN w
    ELSE IF Len(chunk) = 1 THEN ProcessByte(w, chunk[1])
    ELSE LET h == Len(chunk) \div 2
             w1 == ChunkLoop(w, SubSeq(chunk, 1, h))
         IN \* the test makes the left half be evaluated before the right one
            IF w1.ctx.parser.current_row >= w.ctx.parser.current_row
            THEN ChunkLoop(w1, SubSeq(chunk, h + 1, Len(chunk)))
            ELSE w1

\* a parser that starts every chunk with an empty line buffer
parser_process_chunk_no_carry(w, chunk) ==
    ChunkLoop([w EXCEPT !.ctx.parser.buffer = <<>>], chunk)

\* parser_process_chunk(ctx, chunk, length, on_record, on_error, callback_ctx):
\* the line buffer and the row counter are those ctx holds from earlier calls
parser_process_chunk(w, chunk) ==
    ChunkLoop(w, chunk)

\* parser_finalize(ctx): the body handles nothing that is left in the buffer
parser_finalize(w) == w

\* parser_init(ctx, batch_id)
parser_init(batch_id) ==
    [buffer |-> <<>>, current_row |-> 0, batch_id |-> batch_id]

-----------------------------------------------------------------------------
(* The uploads of the model                                                *)

\* the header line of the input format (spec section 6)
HeaderLine ==
    <<"t", "r", "a", "c", "k", "i", "n", "g", "_", "n", "u", "m", "b",
      "e", "r", ",", "o", "r", "i", "g", "i", "n", ",", "d", "e", "s",
      "t", "i", "n", "a", "t", "i", "o", "n", ",", "w", "e", "i", "g",
      "h", "t", "_", "k", "g", ",", "l", "e", "n", "g", "t", "h", "_",
      "c", "m", ",", "w", "i", "d", "t", "h", "_", "c", "m", ",", "h",
      "e", "i", "g", "h", "t", "_", "c", "m", ",", "s", "h", "i", "p",
      "_", "d", "a", "t", "e", ",", "s", "t", "a", "t", "u", "s">>

\* a data line that satisfies the schema
RowValid ==
    <<"T", "R", "K", "0", "0", "0", "0", "0", "0", "1", ",", "N", "Y",
      "C", ",", "L", "A", ",", "1", ".", "5", ",", "0", ",", "0", ",",
      "0", ",", "2", "0", "2", "4", "-", "0", "2", "-", "2", "9", ",",
      "p", "e", "n", "d", "i", "n", "g">>

\* a valid data line with quoted fields, a quoted comma, CR LF ending
\* and an upper-case status
RowQuoted ==
    <<QUOTE, "T", "R", "K", "0", "0", "0", "0", "0", "0", "2", QUOTE,
      ",", QUOTE, "B", ",", "w", "i", "t", "h", ",", "c", "o", "m", "m",
      "a", "s", QUOTE, ",", QUOTE, "C", QUOTE, ",", "1", "0", ".", "0",
      ",", "0", ",", "0", ",", "0", ",", "2", "0", "2", "4", "-", "0",
      "1", "-", "0", "2", ",", "P", "E", "N", "D", "I", "N", "G", CR>>

\* a data line whose only fault is its status
RowBadStatus ==
    <<"T", "R", "K", "0", "0", "0", "0", "0", "0", "3", ",", "N", "Y",
      "C", ",", "L", "A", ",", "2", ",", "0", ",", "0", ",", "0", ",",
      "2", "0", "2", "4", "-", "0", "1", "-", "0", "2", ",", "S", "H",
      "I", "P", "P", "E", "D">>

\* a data line with fewer than 7 columns
RowShort ==
    <<"a", ",", "b", ",", "c">>

\* data lines a file of the model is made of
DataLines == {RowValid, RowQuoted, RowBadStatus, RowShort}

\* data lines that satisfy the schema
ValidLines == {RowValid, RowQuoted}

\* number of data lines of a file
MaxRows == 2

\* largest number of store calls one fault makes the store reject
MaxFaults == 5

\* largest number of bytes the transport hands over in one call
MaxChunk == 96

RECURSIVE Join(_)
\* the lines, each followed by a line feed
Join(ls) == IF ls = <<>> THEN <<>> ELSE Head(ls) \o <<LF>> \o Join(Tail(ls))

LineSeqs(S, n) == UNION {[1..k -> S] : k \in 0..n}

\* the bytes of a file: its lines, the last line feed there iff final_lf
FileOf(f) ==
    LET j == Join(f.lines)
    IN IF f.final_lf \/ j = <<>> THEN j ELSE SubSeq(j, 1, Len(j) - 1)

FileBytes == FileOf(file)

\* a header line, then at most MaxRows data lines
Files ==
    {[lines |-> <<HeaderLine>> \o ls, final_lf |-> t] :
        ls \in LineSeqs(DataLines, MaxRows), t \in BOOLEAN}

-----------------------------------------------------------------------------
(* server.c: the handlers of an upload request                             *)

\* the batch id answer_to_connection generates (server.c:155-157)
BatchId == "b1"

\* calloc(1, sizeof(struct RequestContext))
ZeroCtx ==
    [parser |-> [buffer |-> <<>>, current_row |-> 0, batch_id |-> ""],
     batch_id |-> "", status_code |-> 0,
     record_batch |-> <<>>, error_batch |-> <<>>,
     progress |-> [total_rows |-> 0, processed_rows |-> 0, valid_rows |-> 0,
                   invalid_rows |-> 0, status |-> STATUS_UPLOADING]]

\* the context of a new upload, before its first progress upsert
\* (server.c:149-168)
NewCtx ==
    [ZeroCtx EXCEPT !.batch_id = BatchId,
                    !.parser = parser_init(BatchId),
                    !.progress.status = STATUS_UPLOADING]

World == [ctx |-> ctx, db |-> db, faults |-> faults, emitted |-> emitted,
          flushes |-> flushes]

Install(w) ==
    /\ ctx' = w.ctx
    /\ db' = w.db
    /\ faults' = w.faults
    /\ emitted' = w.emitted
    /\ flushes' = w.flushes

\* answer_to_connection, first call of POST /api/upload (*con_cls == NULL)
NewUpload ==
    /\ conn = "new"
    /\ LET p == db_update_progress(db, faults, BatchId, NewCtx.progress)
       IN /\ ctx' = NewCtx
          /\ db' = p.db
          /\ faults' = p.faults
    /\ conn' = "open"
    /\ UNCHANGED <<file, sent, emitted, flushes, cuts, exportVars, concVars>>

\* where a chunk ends, given the line buffer after the chunk and the first
\* byte of the next chunk: inside a quoted field, between the two quotes of
\* an escaped quote, between CR and LF
CutKinds(buf, next) ==
    LET last == IF buf = <<>> THEN "" ELSE buf[Len(buf)]
    IN {k \in {"quoted", "escaped", "crlf"} :
          \/ k = "quoted" /\ QuoteCount(buf) % 2 = 1
          \/ k = "escaped" /\ last = QUOTE /\ next = QUOTE
                            /\ QuoteCount(buf) % 2 = 0
          \/ k = "crlf" /\ last = CR /\ next = LF}

\* answer_to_connection with *upload_data_size != 0: MHD_post_process hands
\* the next n bytes of the file part to post_iterator
UploadData(n) ==
    /\ conn = "open"
    /\ sent < Len(FileBytes)
    /\ LET len == Min(n, Len(FileBytes) - sent)
           chunk == SubSeq(FileBytes, sent + 1, sent + len)
           w0 == [World EXCEPT !.ctx.progress.status = STATUS_PARSING]
           w1 == parser_process_chunk(w0, chunk)
       IN /\ Install(w1)
          /\ sent' = sent + len
          /\ cuts' = IF sent + len < Len(FileBytes)
                     THEN cuts \cup CutKinds(w1.ctx.parser.buffer,
                                             FileBytes[sent + len + 1])
                     ELSE cuts
    /\ UNCHANGED <<file, conn, exportVars, concVars>>

MHD_HTTP_OK == 200
MHD_HTTP_NOT_FOUND == 404

\* the answer to a finished upload: status 200 and the batch id
\* (server.c:197-205)
UploadResponse(c) ==
    [url |-> "/api/upload", batch_id |-> c.batch_id, status |-> MHD_HTTP_OK,
     body |-> <<"{\"batch_id\": \"">> \o <<c.batch_id>>
                \o <<"\", \"message\": \"Upload started\"}">>]

\* an end of upload that stores the status of a new upload
UploadFinished_status_reset ==
    /\ conn = "open"
    /\ sent = Len(FileBytes)
    /\ LET w0 == parser_finalize(World)
           w1 == [w0 EXCEPT !.ctx.progress.status = STATUS_UPLOADING]
       IN Install(flush_batches(w1))
    /\ conn' = "responded"
    /\ resp' = UploadResponse(ctx)
    /\ UNCHANGED <<file, sent, cuts, exportVars, peer, pool>>

\* answer_to_connection with *upload_data_size == 0: the upload is finished
UploadFinished ==
    /\ conn = "open"
    /\ sent = Len(FileBytes)
    /\ LET w0 == parser_finalize(World)
           w1 == [w0 EXCEPT !.ctx.progress.status = STATUS_COMPLETE]
       IN Install(flush_batches(w1))
    /\ conn' = "responded"
    /\ resp' = UploadResponse(ctx)
    /\ UNCHANGED <<file, sent, cuts, exportVars, peer, pool>>

\* request_completed: after the response, or when the client went away
\* (conn = "open"); the pending batches are freed with the context, whose
\* last counters the model keeps in ctx.progress
RequestCompleted ==
    /\ conn \in {"open", "responded"}
    /\ ctx' = [ctx EXCEPT !.record_batch = <<>>, !.error_batch = <<>>]
    /\ conn' = IF conn = "open" THEN "aborted" ELSE "closed"
    /\ UNCHANGED <<file, sent, db, faults, emitted, flushes, cuts, exportVars, concVars>>

\* the store starts rejecting: its next k calls fail
StoreFault(k) ==
    /\ conn \in {"new", "open"}
    /\ faults = 0
    /\ faults' = k
    /\ UNCHANGED <<file, sent, conn, ctx, db, emitted, flushes, cuts,
                   exportVars, concVars>>

\* no second request, no handle taken from the pool
NoPeers == <<>>
NoResp == [url |-> "", batch_id |-> "", status |-> 0, body |-> <<>>]
NoPool == [out |-> 0, cursors |-> 0, ops |-> <<>>]

EmptyDb == [shipments |-> <<>>, errors |-> <<>>, batches |-> {},
            rejected |-> FALSE]

-----------------------------------------------------------------------------
(* db.c: the streaming export reader                                       *)

\* no export request: a zeroed struct ExportContext that is not open
NoExport ==
    [open |-> FALSE, cursor |-> <<>>, pending_data |-> <<>>,
     pending_written |-> 0, is_csv |-> FALSE, first_record |-> FALSE,
     finished |-> FALSE, footer_processed |-> FALSE]

NoRead == [max |-> 0, ret |-> 0, bytes |-> <<>>]

\* bson_as_relaxed_extended_json(doc, NULL): the text of a document, of which
\* the model keeps the braces and the row number
bson_as_relaxed_extended_json(doc) ==
    <<"{">> \o UIntChars(doc.row_number) \o <<"}">>

RECURSIVE SortByRowNumber(_)
\* the "sort": {"row_number": 1} option of the find (db.c:611-615)
SortByRowNumber(docs) ==
    IF docs = {} THEN <<>>
    ELSE LET m == CHOOSE d \in docs :
                     \A o \in docs : d.row_number <= o.row_number
         IN <<m>> \o SortByRowNumber(docs \ {m})

\* mongoc_collection_find_with_opts on shipments with {"batch_id": batch_id}
FindShipments(d, batch_id) ==
    SortByRowNumber({d.shipments[i] : i \in
                       {j \in DOMAIN d.shipments :
                           d.shipments[j].batch_id = batch_id}})

\* db_open_export_cursor(batch_id, is_csv)
db_open_export_cursor(d, batch_id, is_csv) ==
    [NoExport EXCEPT !.open = TRUE,
                     !.cursor = FindShipments(d, batch_id),
                     !.is_csv = is_csv,
                     !.first_record = TRUE,
                     !.finished = FALSE]

RECURSIVE ReadLoop(_, _, _)
\* the while (written < max) loop of db_read_export_chunk (db.c:666-745);
\* buf holds the bytes written to the caller's buffer so far
ReadLoop(e, buf, max) ==
    IF ~(Len(buf) < max) THEN [ctx |-> e, ret |-> Len(buf), bytes |-> buf]
    ELSE IF e.cursor /= <<>>
    THEN LET str == bson_as_relaxed_extended_json(Head(e.cursor))
             needs_comma == ~e.is_csv /\ ~e.first_record
             rec == (IF needs_comma THEN <<",">> ELSE <<>>) \o str
                       \o (IF e.is_csv THEN <<LF>> ELSE <<>>)
             e1 == [e EXCEPT !.cursor = Tail(@), !.first_record = FALSE]
             space == max - Len(buf)
         IN IF Len(buf) + Len(rec) <= max
            THEN ReadLoop(e1, buf \o rec, max)
            ELSE [ctx |-> [e1 EXCEPT !.pending_data = rec,
                                     !.pending_written = space],
                  ret |-> max,
                  bytes |-> buf \o SubSeq(rec, 1, space)]
    ELSE IF ~e.is_csv
    THEN IF ~e.footer_processed
         THEN IF Len(buf) < max
              THEN [ctx |-> [e EXCEPT !.footer_processed = TRUE,
                                      !.finished = TRUE],
                    ret |-> Len(buf) + 1,
                    bytes |-> Append(buf, "]")]
              ELSE [ctx |-> [e EXCEPT !.pending_data = <<"]">>,
                                      !.footer_processed = TRUE],
                    ret |-> Len(buf), bytes |-> buf]
         ELSE [ctx |-> [e EXCEPT !.finished = TRUE],
               ret |-> Len(buf), bytes |-> buf]
    ELSE [ctx |-> [e EXCEPT !.finished = TRUE],
          ret |-> Len(buf), bytes |-> buf]

\* a reader that reports end-of-stream as soon as no document is left to
\* fetch, whatever is still to be written
db_read_export_chunk_early_eos(e, max) ==
    IF e.finished \/ e.cursor = <<>>
    THEN [ctx |-> [e EXCEPT !.finished = TRUE], ret |-> -1, bytes |-> <<>>]
    ELSE LET b0 == IF ~e.is_csv /\ e.first_record /\ 0 < max
                   THEN <<"[">> ELSE <<>>
             remaining == Len(e.pending_data) - e.pending_written
             space == max - Len(b0)
         IN IF e.pending_data /= <<>>
            THEN IF remaining <= space
                 THEN ReadLoop([e EXCEPT !.pending_data = <<>>,
                                         !.pending_written = 0],
                               b0 \o SubSeq(e.pending_data,
                                            e.pending_written + 1,
                                            Len(e.pending_data)),
                               max)
                 ELSE [ctx |-> [e EXCEPT !.pending_written = @ + space],
                       ret |-> max,
                       bytes |-> b0 \o SubSeq(e.pending_data,
                                              e.pending_written + 1,
                                              e.pending_written + space)]
            ELSE ReadLoop(e, b0, max)

\* a reader that copies the whole overflow whatever room the buffer has
db_read_export_chunk_overrun(e, max) ==
    IF e.finished THEN [ctx |-> e, ret |-> -1, bytes |-> <<>>]
    ELSE LET b0 == IF ~e.is_csv /\ e.first_record /\ 0 < max
                   THEN <<"[">> ELSE <<>>
         IN IF e.pending_data /= <<>>
            THEN ReadLoop([e EXCEPT !.pending_data = <<>>,
                                    !.pending_written = 0],
                          b0 \o SubSeq(e.pending_data,
                                       e.pending_written + 1,
                                       Len(e.pending_data)),
                          max)
            ELSE ReadLoop(e, b0, max)

\* db_read_export_chunk(context, buf, max): the new context, the return
\* value and the bytes written to buf
db_read_export_chunk(e, max) ==
    IF e.finished THEN [ctx |-> e, ret |-> -1, bytes |-> <<>>]
    ELSE LET b0 == IF ~e.is_csv /\ e.first_record /\ 0 < max
                   THEN <<"[">> ELSE <<>>
             remaining == Len(e.pending_data) - e.pending_written
             space == max - Len(b0)
         IN IF e.pending_data /= <<>>
            THEN IF remaining <= space
                 THEN ReadLoop([e EXCEPT !.pending_data = <<>>,
                                         !.pending_written = 0],
                               b0 \o SubSeq(e.pending_data,
                                            e.pending_written + 1,
                                            Len(e.pending_data)),
                               max)
                 ELSE [ctx |-> [e EXCEPT !.pending_written = @ + space],
                       ret |-> max,
                       bytes |-> b0 \o SubSeq(e.pending_data,
                                              e.pending_written + 1,
                                              e.pending_written + space)]
            ELSE ReadLoop(e, b0, max)

\* db_close_export_cursor(context)
db_close_export_cursor(e) == NoExport

\* largest row number of a document in the store of an export
MaxDocs == 2

\* largest size of the buffer of a read call, but for one that holds it all
MaxBuf == 4

\* a buffer that holds a whole export
BigBuf == 64

\* the reads of an export stop when this many bytes were returned
MaxOut == 14

\* GET /api/export?batch_id=...&format=json|csv (server.c:270-298)
OpenExport(is_csv) ==
    /\ ~ex.open
    /\ out = <<>>
    /\ ex' = db_open_export_cursor(db, BatchId, is_csv)
    /\ UNCHANGED <<out, last_read, uploadVars, db, faults, concVars>>

\* export_callback(cls, pos, buf, max), called until it returns -1
ReadChunk(max) ==
    /\ ex.open
    /\ last_read.ret /= -1
    /\ Len(out) < MaxOut
    /\ LET r == db_read_export_chunk(ex, max)
       IN /\ ex' = r.ctx
          /\ out' = out \o r.bytes
          /\ last_read' = [max |-> max, ret |-> r.ret, bytes |-> r.bytes]
    /\ UNCHANGED <<uploadVars, db, faults, concVars>>

\* export_done(cls); the bytes sent stay with the client
CloseExport ==
    /\ ex.open
    /\ ex' = [db_close_export_cursor(ex) EXCEPT !.is_csv = ex.is_csv]
    /\ UNCHANGED <<out, last_read, uploadVars, db, faults, concVars>>

InitUpload ==
    /\ sent = 0
    /\ conn = "new"
    /\ ctx = ZeroCtx
    /\ db = EmptyDb
    /\ faults = 0
    /\ emitted = <<>>
    /\ flushes = <<>>
    /\ cuts = {}
    /\ ex = NoExport
    /\ out = <<>>
    /\ last_read = NoRead
    /\ peer = NoPeers
    /\ pool = NoPool
    /\ resp = NoResp

Init ==
    /\ file \in Files
    /\ InitUpload

Next ==
    \/ NewUpload
    \/ \E n \in {MaxChunk \div 2, MaxChunk} : UploadData(n)
    \/ UploadFinished
    \/ RequestCompleted
    \/ \E k \in 1..MaxFaults : StoreFault(k)

Spec == Init /\ [][Next]_vars

-----------------------------------------------------------------------------
(* The parser fed in small chunks                                          *)

\* RFC 4180 lines: quoted fields with commas (spec section 9, scenario 3)
RowScenario ==
    <<QUOTE, "A", QUOTE, ",", QUOTE, "B", ",", "w", "i", "t", "h", ",", "c",
      "o", "m", "m", "a", "s", QUOTE, ",", QUOTE, "C", QUOTE, ",", "1", "0",
      ".", "0", ",", "0", ",", "0", ",", "0", ",", "2", "0", "2", "4", "-",
      "0", "1", "-", "0", "2", ",", "p", "e", "n", "d", "i", "n", "g">>

\* an escaped quote inside a quoted field, and a CR LF line ending
RowEscaped ==
    <<QUOTE, "x", QUOTE, QUOTE, "y", QUOTE, ",", "b", ",", "c", ",", "1",
      ",", "0", ",", "0", ",", "0", CR>>

\* a line feed inside a quoted field
RowMultiline ==
    <<QUOTE, "p", LF, "q", QUOTE, ",", "b", ",", "c", ",", "1", ",", "0",
      ",", "0", ",", "0">>

RfcLines == {RowScenario, RowEscaped, RowMultiline}

\* number of lines of a file fed in small chunks
MaxLines == 2

\* largest size of a small chunk
MaxSlice == 3

ChunkFiles ==
    {[lines |-> ls, final_lf |-> t] :
        ls \in LineSeqs(RfcLines, MaxLines) \ {<<>>}, t \in BOOLEAN}

InitChunk ==
    /\ file \in ChunkFiles
    /\ InitUpload

NextChunk ==
    \/ NewUpload
    \/ \E n \in 1..MaxSlice : UploadData(n)

SpecChunk == InitChunk /\ [][NextChunk]_vars

-----------------------------------------------------------------------------
(* Uploads of one row whose fields are chosen from menus; the first entry  *)
(* of a menu satisfies the schema                                          *)

\* tracking_number: valid, too short, not alphanumeric
TrackingMenu ==
    << <<"T", "R", "K", "0", "0", "0", "0", "0", "0", "1">>,
       <<"S", "H", "O", "R", "T">>,
       <<"T", "R", "K", "_", "0", "0", "0", "0", "0", "1">> >>

\* origin: valid, empty
OriginMenu ==
    << <<"N", "Y", "C">>,
       <<>> >>

\* destination: valid, empty
DestinationMenu ==
    << <<"L", "A">>,
       <<>> >>

\* weight_kg: positive, zero, negative
WeightMenu ==
    << <<"1", ".", "5">>,
       <<"0">>,
       <<"-", "2">> >>

\* length_cm, width_cm, height_cm: zero, negative
DimensionMenu ==
    << <<"0">>,
       <<"-", "1">> >>

\* ship_date: leap days, days and months out of range, other shapes, years
\* far away
DateMenu ==
    << <<"2", "0", "2", "4", "-", "0", "2", "-", "2", "9">>,
       <<"2", "0", "2", "3", "-", "0", "2", "-", "2", "9">>,
       <<"2", "0", "0", "0", "-", "0", "2", "-", "2", "9">>,
       <<"1", "9", "0", "0", "-", "0", "2", "-", "2", "9">>,
       <<"2", "0", "2", "4", "-", "0", "4", "-", "3", "1">>,
       <<"2", "0", "2", "4", "-", "1", "3", "-", "0", "1">>,
       <<"2", "0", "2", "4", "-", "1", "x", "-", "0", "5">>,
       <<"1", "8", "9", "9", "-", "1", "2", "-", "3", "1">>,
       <<"2", "0", "2", "4", "/", "0", "1", "/", "0", "5">>,
       <<"2", "0", "2", "4", "-", "1", "-", "5">> >>

\* status: valid, unknown, empty, valid in mixed case
StatusMenu ==
    << <<"p", "e", "n", "d", "i", "n", "g">>,
       <<"S", "H", "I", "P", "P", "E", "D">>,
       <<>>,
       <<"I", "n", "_", "T", "r", "a", "n", "s", "i", "t">> >>

FieldMenus ==
    <<TrackingMenu, OriginMenu, DestinationMenu, WeightMenu, DimensionMenu,
      DimensionMenu, DimensionMenu, DateMenu, StatusMenu>>

\* the choices for column f; the last choice for the status column is to
\* leave the column out of the row
AltCount(f) == IF f = 9 THEN Len(StatusMenu) + 1 ELSE Len(FieldMenus[f])

RECURSIVE JoinFields(_)
JoinFields(fs) ==
    IF Len(fs) = 1 THEN fs[1]
    ELSE fs[1] \o <<COMMA>> \o JoinFields(Tail(fs))

\* the line made of the chosen fields
RowOf(c) ==
    LET n == IF c[9] > Len(StatusMenu) THEN 8 ELSE 9
    IN JoinFields([f \in 1..n |-> FieldMenus[f][c[f]]])

\* rows that differ from the valid row in at most two columns
RowChoices ==
    LET valid == [f \in 1..9 |-> 1]
        alts == {q \in (1..9) \X (1..Len(DateMenu)) : q[2] <= AltCount(q[1])}
    IN {[[valid EXCEPT ![p[1]] = p[2]] EXCEPT ![q[1]] = q[2]] :
           p \in alts, q \in alts}

ValidateFiles ==
    {[lines |-> <<RowOf(c)>>, final_lf |-> TRUE] : c \in RowChoices}

InitValidate ==
    /\ file \in ValidateFiles
    /\ InitUpload

NextValidate ==
    \/ NewUpload
    \/ UploadData(MaxChunk)
    \/ UploadFinished

SpecValidate == InitValidate /\ [][NextValidate]_vars

-----------------------------------------------------------------------------
(* The export of a stored batch                                            *)

\* the stored document of row n of batch b
DocOfRow(b, n) == ShipmentDoc(b, EmptyRecord(n, b))

\* the shipments collection in its natural order: documents of the batch
\* with distinct row numbers in any order, then one of another batch
ExportStores ==
    {[EmptyDb EXCEPT !.shipments =
         [i \in DOMAIN rows |-> DocOfRow(BatchId, rows[i])]
            \o <<DocOfRow("b2", 1)>>] :
        rows \in {r \in LineSeqs(1..MaxDocs, MaxDocs) :
                     \A i, j \in DOMAIN r : i /= j => r[i] /= r[j]}}

InitExport ==
    /\ file = [lines |-> <<HeaderLine>>, final_lf |-> TRUE]
    /\ sent = 0
    /\ conn = "new"
    /\ ctx = ZeroCtx
    /\ db \in ExportStores
    /\ faults = 0
    /\ emitted = <<>>
    /\ flushes = <<>>
    /\ cuts = {}
    /\ ex = NoExport
    /\ out = <<>>
    /\ last_read = NoRead
    /\ peer = NoPeers
    /\ pool = NoPool
    /\ resp = NoResp

NextExport ==
    \/ \E is_csv \in BOOLEAN : OpenExport(is_csv)
    \/ \E max \in 1..MaxBuf \cup {BigBuf} : ReadChunk(max)
    \/ CloseExport

SpecExport == InitExport /\ [][NextExport]_vars

-----------------------------------------------------------------------------
(* Properties of the upload pipeline                                       *)

\* the records the parser delivered to on_record so far
Delivered == {i \in DOMAIN emitted : emitted[i].kind = "record"}

\* the structural errors the parser reported to on_error so far
Reported == {i \in DOMAIN emitted : emitted[i].kind = "error"}

Balanced(p) == p.processed_rows = p.valid_rows + p.invalid_rows

\* C1: in every reachable state of an upload the in-memory progress, every
\* snapshot handed to the progress upsert and every stored progress document
\* satisfy processed_rows = valid_rows + invalid_rows; and each record
\* delivered by the parser has added 1 to processed_rows and 1 to exactly one
\* of valid_rows (it passed validate_record) and invalid_rows (it did not).
C1_CountersBalanced ==
    /\ Balanced(ctx.progress)
    /\ \A i \in DOMAIN flushes : Balanced(flushes[i].progress)
    /\ \A b \in db.batches : Balanced(b)
    /\ ctx.progress.processed_rows = Cardinality(Delivered)
    /\ ctx.progress.valid_rows =
         Cardinality({i \in Delivered : validate_record(emitted[i].record).ok})
    /\ ctx.progress.invalid_rows =
         Cardinality({i \in Delivered : ~validate_record(emitted[i].record).ok})

\* C1 witness: records that passed and records that failed were delivered, a
\* structural error was reported, and a snapshot with both counts is stored
C1_Witness ==
    /\ Reported /= {}
    /\ \E b \in db.batches :
          b.valid_rows >= 1 /\ b.invalid_rows >= 1 /\ b.processed_rows >= 2

\* the shipments and errors documents the store holds for the upload
StoredRecords == {i \in DOMAIN db.shipments : db.shipments[i].batch_id = BatchId}
StoredErrors == {i \in DOMAIN db.errors : db.errors[i].batch_id = BatchId}

\* the data lines of the file (all lines after the header line)
DataLineCount == Len(file.lines) - 1

\* C2: for an upload of a header line followed by n data rows that all
\* satisfy the schema, with a store that never rejects a call, at
\* end-of-stream exactly n records and 0 errors are inserted, the status is
\* complete and the counters are total = processed = valid = n, invalid = 0.
C2_HappyPath ==
    (/\ conn = "responded"
     /\ ~db.rejected
     /\ \A i \in 2..Len(file.lines) : file.lines[i] \in ValidLines)
    => LET n == DataLineCount
           want == [total_rows |-> n, processed_rows |-> n, valid_rows |-> n,
                    invalid_rows |-> 0, status |-> STATUS_COMPLETE]
       IN /\ Cardinality(StoredRecords) = n
          /\ Cardinality(StoredErrors) = 0
          /\ ctx.progress = want
          /\ db.batches = {[batch_id |-> BatchId, total_rows |-> n,
                            processed_rows |-> n, valid_rows |-> n,
                            invalid_rows |-> 0, status |-> STATUS_COMPLETE]}

\* the flushes in which a bulk insert failed on all its attempts
GaveUp == {i \in DOMAIN flushes :
             flushes[i].rec_ret = -1 \/ flushes[i].err_ret = -1}

\* C5: when a bulk insert of buffered records or errors has failed on all 5
\* attempts, the batch status is failed, no further row is accepted for the
\* batch, and the items of the failed insert are still in the pending
\* buffer (a buffer is cleared only after its insert succeeded).
C5_GiveUpFailsBatch ==
    \A i \in GaveUp :
        /\ ctx.progress.status = STATUS_FAILED
        /\ ctx.progress.processed_rows = flushes[i].progress.processed_rows
        /\ conn \in {"open", "responded"} =>
              /\ flushes[i].rec_ret = -1 =>
                    \A k \in DOMAIN flushes[i].rows :
                        \E j \in DOMAIN ctx.record_batch :
                            ctx.record_batch[j].row_number = flushes[i].rows[k]
              /\ flushes[i].err_ret = -1 =>
                    \A k \in DOMAIN flushes[i].error_rows :
                        \E j \in DOMAIN ctx.error_batch :
                            ctx.error_batch[j].row_number = flushes[i].error_rows[k]

\* C6: however the upload ends (response sent, or the client went away), the
\* number of records flushed into the store over all flushes of the batch
\* equals the final valid_rows counter.
C6_FlushedEqualsValid ==
    conn \in {"responded", "closed", "aborted"}
    => Cardinality(StoredRecords) = ctx.progress.valid_rows

\* C7: each structural failure reported by the parser has added one error
\* entry with field "(row)" for its row to the errors of the batch (pending
\* or stored) and 1 to processed_rows and to invalid_rows.
C7_StructuralErrorsCounted ==
    (conn \in {"open", "responded"} /\ ~db.rejected)
    => /\ ctx.progress.processed_rows = Len(emitted)
       /\ ctx.progress.invalid_rows >= Cardinality(Reported)
       /\ \A i \in Reported :
            \/ \E j \in DOMAIN ctx.error_batch :
                  /\ ctx.error_batch[j].row_number = emitted[i].row
                  /\ ctx.error_batch[j].field = "(row)"
            \/ \E j \in StoredErrors :
                  /\ db.errors[j].row_number = emitted[i].row
                  /\ db.errors[j].field = "(row)"

\* what the parser makes of data line k of the file, taken alone
RecordOfDataLine(k) ==
    parse_csv_line(StripEol(file.lines[k + 1] \o <<LF>>),
                   EmptyRecord(k, BatchId))

\* C8: the first line of the upload (the header) is never delivered, never
\* validated and never counted, and the k-th data line after it is given
\* row_number k: every callback carries a row k >= 1 of a data line of the
\* file, a delivered record is the parse of data line k, and no more rows
\* are counted than the file has data lines.
C8_HeaderSkipped ==
    /\ \A i \in DOMAIN emitted :
          /\ emitted[i].row >= 1
          /\ emitted[i].row <= DataLineCount
          /\ emitted[i].kind = "record" =>
                /\ RecordOfDataLine(emitted[i].row).ret = 0
                /\ emitted[i].record = RecordOfDataLine(emitted[i].row).record
    /\ ctx.progress.processed_rows <= DataLineCount

\* the world of a new upload with an empty store that rejects nothing
FreshWorld ==
    [ctx |-> NewCtx, db |-> EmptyDb, faults |-> 0, emitted |-> <<>>,
     flushes |-> <<>>]

\* C9: at end-of-stream the bytes left in the carry-over buffer are
\* delivered as a final row, so the callbacks made for a file are the same
\* whether or not its last line ends with a line feed.
C9_FinalLineDelivered ==
    (conn = "responded" /\ DataLineCount >= 1)
    => emitted =
         parser_process_chunk(FreshWorld,
                              FileOf([file EXCEPT !.final_lf = TRUE])).emitted

\* C10: the batch status, in memory or in the store, is complete only if
\* end-of-stream was signalled and, in the final flush, both the buffered
\* records and the buffered errors were inserted.
C10_CompleteOnlyAfterGoodFlush ==
    (\/ ctx.progress.status = STATUS_COMPLETE
     \/ \E b \in db.batches : b.status = STATUS_COMPLETE)
    => /\ conn \in {"responded", "closed"}
       /\ flushes /= <<>>
       /\ flushes[Len(flushes)].rec_ret = 0
       /\ flushes[Len(flushes)].err_ret = 0

\* C3: however the bytes handed over so far were cut into chunks, the
\* callbacks the parser made (records with their field values and row
\* numbers, and errors) and the state it carries are those of feeding the
\* same bytes to parser_process_chunk as a single chunk.
C3_ChunkingInvariant ==
    conn = "open"
    => LET whole == parser_process_chunk(FreshWorld,
                                         SubSeq(FileBytes, 1, sent))
       IN /\ emitted = whole.emitted
          /\ ctx.parser = whole.ctx.parser

\* a whole file was fed in chunks cut inside a quoted field, between the two
\* quotes of an escaped quote and between CR and LF, and the scenario row
\* came out as one record with its quoted field intact
C3_Witness ==
    /\ conn = "open"
    /\ sent = Len(FileBytes)
    /\ cuts = {"quoted", "escaped", "crlf"}
    /\ Cardinality(Delivered) = Len(file.lines)
    /\ \E i \in Delivered :
          emitted[i].record.origin =
             <<"B", ",", "w", "i", "t", "h", ",", "c", "o", "m", "m", "a", "s">>

RECURSIVE JoinDocs(_, _)
\* the texts of the documents, sep between two of them
JoinDocs(docs, sep) ==
    IF docs = <<>> THEN <<>>
    ELSE bson_as_relaxed_extended_json(Head(docs))
            \o (IF Len(docs) > 1 THEN sep ELSE <<>>)
            \o JoinDocs(Tail(docs), sep)

\* the rendering of the batch in one buffer: for JSON '[', the documents in
\* ascending row_number separated by ',', then ']'; for the line format
\* each document followed by a line feed
CanonicalRendering(is_csv) ==
    LET docs == FindShipments(db, BatchId)
    IN IF is_csv
       THEN JoinDocs(docs, <<LF>>) \o (IF docs = <<>> THEN <<>> ELSE <<LF>>)
       ELSE <<"[">> \o JoinDocs(docs, <<",">>) \o <<"]">>

IsPrefix(a, b) == Len(a) <= Len(b) /\ a = SubSeq(b, 1, Len(a))

\* C4: for every stored batch and every sequence of buffer sizes >= 1, the
\* bytes returned by the read calls so far are a prefix of the canonical
\* single-buffer rendering, and once a read has returned the end-of-stream
\* result they are the whole of it.
C4_ExportEqualsCanonical ==
    ex.open
    => /\ IsPrefix(out, CanonicalRendering(ex.is_csv))
       /\ last_read.ret = -1 => out = CanonicalRendering(ex.is_csv)

\* the progress document the store holds for the upload
StoredProgress == {b \in db.batches : b.batch_id = BatchId}

\* C11: after a client disconnect before end-of-input (with a store that
\* rejected nothing) every buffered record and error has been flushed to the
\* store and the persisted status of the batch is failed.
C11_DisconnectFlushesAndFails ==
    (conn = "aborted" /\ ~db.rejected)
    => /\ Cardinality(StoredRecords) = ctx.progress.valid_rows
       /\ Cardinality(StoredErrors) = ctx.progress.invalid_rows
       /\ \A b \in StoredProgress : b.status = STATUS_FAILED

TerminalStatus == {STATUS_COMPLETE, STATUS_FAILED}

\* C12: in every step of an upload the in-memory status and the stored
\* status do not move backwards in the lifecycle order and do not change
\* once they are complete or failed, and the statuses handed to the progress
\* upsert by the successive flushes are in lifecycle order.
C12_StatusMonotone ==
    [][/\ ctx'.progress.status >= ctx.progress.status
       /\ ctx.progress.status \in TerminalStatus
            => ctx'.progress.status = ctx.progress.status
       /\ \A b \in StoredProgress : \A c \in StoredProgress' :
            /\ c.status >= b.status
            /\ b.status \in TerminalStatus => c.status = b.status
       /\ \A i, j \in DOMAIN flushes' :
            i < j => flushes'[i].progress.status <= flushes'[j].progress.status
      ]_vars

\* an upload went through uploading, a flush while parsing, and complete
C12_Witness ==
    /\ conn = "closed"
    /\ \E i \in DOMAIN flushes : flushes[i].progress.status = STATUS_PARSING
    /\ \E b \in StoredProgress : b.status = STATUS_COMPLETE

\* C13: every document of the shipments collection and every record
\* buffered for it passes validate_record, and no delivered record that
\* fails validate_record has a document in shipments.
C13_OnlyValidPersisted ==
    /\ \A i \in StoredRecords : validate_record(db.shipments[i]).ok
    /\ \A i \in DOMAIN ctx.record_batch :
          validate_record(ctx.record_batch[i]).ok
    /\ \A i \in Delivered :
          ~validate_record(emitted[i].record).ok
          => \A j \in StoredRecords :
                db.shipments[j].row_number /= emitted[i].row

\* an upload with a row that failed validation and a row that passed it was
\* flushed: the first is in errors, the second in shipments
C13_Witness ==
    /\ conn = "responded"
    /\ StoredRecords /= {}
    /\ \E i \in Delivered :
          /\ emitted[i].row > 1
          /\ ~validate_record(emitted[i].record).ok
          /\ \E j \in StoredErrors : db.errors[j].row_number = emitted[i].row

\* the bulk inserts executed by the flushes: return value, sleeps, number of
\* executions and row numbers of the items
BulkInserts ==
    {[ret |-> flushes[i].rec_ret, sleeps |-> flushes[i].rec_sleeps,
      attempts |-> flushes[i].rec_attempts, rows |-> flushes[i].rows,
      coll |-> "shipments"] : i \in DOMAIN flushes}
    \cup
    {[ret |-> flushes[i].err_ret, sleeps |-> flushes[i].err_sleeps,
      attempts |-> flushes[i].err_attempts, rows |-> flushes[i].error_rows,
      coll |-> "errors"] : i \in DOMAIN flushes}

\* C14: a bulk insert is executed at most 5 times and stops at its first
\* success (one sleep per failed execution, none after the success), and the
\* n-th sleep is min(2^(n-1), 30) seconds: 1, 2, 4, 8, never more than 30.
C14_RetrySchedule ==
    \A b \in BulkInserts :
        /\ b.attempts <= 5
        /\ b.ret = 0 /\ b.rows /= <<>> => b.attempts = Len(b.sleeps) + 1
        /\ b.ret = -1 => b.attempts = 5
        /\ \A n \in DOMAIN b.sleeps :
              /\ b.sleeps[n] = Min(2 ^ (n - 1), 30)
              /\ b.sleeps[n] <= 30
        /\ SubSeq(b.sleeps, 1, Min(4, Len(b.sleeps)))
              = SubSeq(<<1, 2, 4, 8>>, 1, Min(4, Len(b.sleeps)))

\* a records insert that succeeded at its fifth execution after sleeping
\* 1, 2, 4 and 8 seconds, and an insert that failed five times
C14_Witness ==
    /\ \E b \in BulkInserts :
          b.ret = 0 /\ b.attempts = 5 /\ b.sleeps = <<1, 2, 4, 8>>
    /\ \E b \in BulkInserts : b.ret = -1

RECURSIVE SumSeq(_)
SumSeq(q) == IF q = <<>> THEN 0 ELSE Head(q) + SumSeq(Tail(q))

\* the same upload with a store that rejects nothing, fed as one chunk
FailureFreeRun ==
    LET p == db_update_progress(EmptyDb, 0, BatchId, NewCtx.progress)
        w0 == [FreshWorld EXCEPT !.db = p.db,
                                 !.ctx.progress.status = STATUS_PARSING]
        w1 == parser_finalize(parser_process_chunk(w0, FileBytes))
    IN flush_batches([w1 EXCEPT !.ctx.progress.status = STATUS_COMPLETE])

\* the rows of the documents of a collection of the store
StoredRows(coll) ==
    IF coll = "shipments"
    THEN {db.shipments[i].row_number : i \in StoredRecords}
    ELSE {db.errors[i].row_number : i \in StoredErrors}

\* C15: a bulk insert rejected k times, 1 <= k <= 4, and then accepted
\* succeeds, has stored every buffered item and has slept the sum of the
\* first k delays (2^k - 1 seconds); and an upload all of whose store calls
\* were accepted in the end finishes with status complete and the documents
\* and counters of the run without rejections.
C15_RetryThenSuccess ==
    /\ \A b \in BulkInserts :
          (Len(b.sleeps) >= 1 /\ Len(b.sleeps) <= 4)
          => /\ b.ret = 0
             /\ \A k \in DOMAIN b.rows : b.rows[k] \in StoredRows(b.coll)
             /\ SumSeq(b.sleeps) = 2 ^ Len(b.sleeps) - 1
    /\ (/\ conn = "responded"
        /\ \A i \in DOMAIN flushes :
              /\ flushes[i].rec_ret = 0
              /\ flushes[i].err_ret = 0
              /\ flushes[i].p_ret = 0)
       => LET ff == FailureFreeRun
          IN /\ db.shipments = ff.db.shipments
             /\ db.errors = ff.db.errors
             /\ db.batches = ff.db.batches
             /\ ctx.progress = ff.ctx.progress
             /\ ctx.progress.status = STATUS_COMPLETE

\* the store rejected the first two executions of a records insert: the
\* persister slept 1 + 2 seconds and the upload ended complete
C15_Witness ==
    /\ conn = "responded"
    /\ \E i \in DOMAIN flushes :
          /\ flushes[i].rows /= <<>>
          /\ flushes[i].rec_ret = 0
          /\ flushes[i].rec_sleeps = <<1, 2>>
    /\ \A i \in DOMAIN flushes :
          flushes[i].rec_ret = 0 /\ flushes[i].err_ret = 0
             /\ flushes[i].p_ret = 0
    /\ \E b \in StoredProgress :
          b.status = STATUS_COMPLETE /\ b.valid_rows >= 1

\* the order of the checks (spec section 4.2)
FieldOrder ==
    <<"tracking_number", "origin", "destination", "weight_kg", "length_cm",
      "width_cm", "height_cm", "ship_date", "status">>

NumericFields == {"weight_kg", "length_cm", "width_cm", "height_cm"}

\* the number of days of month m of year y
DaysIn(m, y) ==
    IF m = 2
    THEN IF (y % 4 = 0 /\ y % 100 /= 0) \/ y % 400 = 0 THEN 29 ELSE 28
    ELSE IF m \in {4, 6, 9, 11} THEN 30 ELSE 31

\* exactly 10 bytes YYYY-MM-DD, digits and two hyphens, a real calendar date
IsCalendarDate(d) ==
    /\ Len(d) = 10
    /\ \A i \in 1..10 : IF i \in {5, 8} THEN d[i] = "-" ELSE isdigit(d[i])
    /\ LET y == DigitRun(d, 1, 0).val
           m == DigitRun(d, 6, 0).val
           day == DigitRun(d, 9, 0).val
       IN m \in 1..12 /\ day >= 1 /\ day <= DaysIn(m, y)

\* one of the five status values, compared without regard to case
IsKnownStatus(st) ==
    \E i \in DOMAIN valid_statuses : strcasecmp_eq(st, valid_statuses[i])

\* the constraint of the schema on field f is not met by record r
SchemaFails(r, f) ==
    CASE f = "tracking_number" ->
           ~(Len(r[f]) >= 10 /\ Len(r[f]) <= 30 /\ is_alphanumeric(r[f]))
      [] f \in {"origin", "destination"} -> r[f] = <<>>
      [] f = "weight_kg" -> r[f] <= 0
      [] f \in {"length_cm", "width_cm", "height_cm"} -> r[f] < 0
      [] f = "ship_date" -> ~IsCalendarDate(r[f])
      [] f = "status" -> ~IsKnownStatus(r[f])

FailingFields(r) == {k \in DOMAIN FieldOrder : SchemaFails(r, FieldOrder[k])}

FirstFailing(r) ==
    FieldOrder[CHOOSE k \in FailingFields(r) :
                  \A o \in FailingFields(r) : k <= o]

\* the value of field f of record r as an error reports it
OffendingValue(r, f) == IF f \in NumericFields THEN sprintf_f(r[f]) ELSE r[f]

\* the stored error documents of a row
ErrorsOfRow(row) == {j \in StoredErrors : db.errors[j].row_number = row}

\* C16: after an upload, a delivered record that meets every constraint has
\* no error, and one that does not has exactly one error, which names the
\* first failing field in the order of the checks and whose actual is the
\* value of that field.
C16_FirstFailureWins ==
    conn = "responded"
    => \A i \in Delivered :
         LET r == emitted[i].record
         IN IF FailingFields(r) = {}
            THEN ErrorsOfRow(r.row_number) = {}
            ELSE /\ Cardinality(ErrorsOfRow(r.row_number)) = 1
                 /\ \A j \in ErrorsOfRow(r.row_number) :
                       /\ db.errors[j].field = FirstFailing(r)
                       /\ db.errors[j].actual
                            = OffendingValue(r, FirstFailing(r))

\* C17: a delivered record passes validate_record only if its status is one
\* of the five values, compared without regard to case; a record that would
\* pass with the status pending and has another status (unknown, empty or
\* missing) is rejected with an error on status.
C17_StatusRequired ==
    \A i \in Delivered :
        LET r == emitted[i].record
        IN /\ validate_record(r).ok => IsKnownStatus(r.status)
           /\ (/\ validate_record([r EXCEPT !.status = valid_statuses[1]]).ok
               /\ ~IsKnownStatus(r.status))
              => /\ ~validate_record(r).ok
                 /\ validate_record(r).error.field = "status"

\* C18: the ship_date of a delivered record passes is_valid_iso8601_date if
\* and only if it is 10 bytes YYYY-MM-DD of digits and hyphens that name a
\* real calendar date (29 February in leap years only).
C18_ShipDateCalendar ==
    \A i \in Delivered :
        is_valid_iso8601_date(emitted[i].record.ship_date)
           <=> IsCalendarDate(emitted[i].record.ship_date)

\* C19: the status of every document of the shipments collection is in
\* lower case.
C19_StatusStoredLowercase ==
    \A i \in StoredRecords :
        \A k \in DOMAIN db.shipments[i].status :
            db.shipments[i].status[k] = tolower(db.shipments[i].status[k])

\* a document as a line of its field values in the fixed column order
\* (numbers as "%f" prints them), terminated by a line feed
CsvLine(doc) ==
    JoinFields([k \in DOMAIN FieldOrder |->
                   OffendingValue(doc, FieldOrder[k])]) \o <<LF>>

RECURSIVE CsvLines(_)
CsvLines(docs) ==
    IF docs = <<>> THEN <<>> ELSE CsvLine(Head(docs)) \o CsvLines(Tail(docs))

\* C20: in CSV mode the bytes returned by the read calls are the lines of
\* field values of the documents in ascending row_number, each terminated
\* by a line feed, with no JSON object and no array framing.
C20_CsvExportColumns ==
    (ex.open /\ ex.is_csv)
    => /\ IsPrefix(out, CsvLines(FindShipments(db, BatchId)))
       /\ \A k \in DOMAIN out : out[k] \notin {"{", "}", "[", "]"}

\* the buffer sizes of the read calls of the model
BufSizes == 1..MaxBuf \cup {BigBuf}

CountOf(c, q) == Cardinality({k \in DOMAIN q : q[k] = c})

\* C21: a read call that found no further document has marked the reader
\* finished; a finished reader has nothing left to deliver (no document, no
\* overflow and, for JSON, the closing ']' returned exactly once as the last
\* byte); every call on a finished reader reports end-of-stream, writes 0
\* bytes and leaves it finished; end-of-stream is reported by no call on a
\* reader that is not finished.
C21_EndOfStream ==
    ex.open
    => /\ ex.finished
            => /\ ex.cursor = <<>>
               /\ ex.pending_data = <<>>
               /\ ~ex.is_csv
                    => /\ ex.footer_processed
                       /\ CountOf("]", out) = 1
                       /\ out[Len(out)] = "]"
       /\ ~ex.finished /\ ~ex.is_csv => CountOf("]", out) = 0
       /\ \A max \in BufSizes :
             LET r == db_read_export_chunk(ex, max)
             IN /\ ex.finished
                     => r = [ctx |-> ex, ret |-> -1, bytes |-> <<>>]
                /\ r.ret = -1 => ex.finished
                /\ (r.ret >= 0 /\ r.ret < max) => r.ctx.finished

\* a JSON export of two documents was read to its end: the last call
\* reported end-of-stream after the closing ']' had been returned
C21_Witness ==
    /\ ex.open
    /\ ~ex.is_csv
    /\ Len(FindShipments(db, BatchId)) = 2
    /\ last_read.ret = -1
    /\ last_read.max <= MaxBuf
    /\ out = CanonicalRendering(FALSE)

-----------------------------------------------------------------------------
(* Two uploads in flight at the same time                                  *)

\* the identifiers the rand() calls of server.c:155-157 can give: the calls
\* of two connection threads are not synchronised and nothing compares the
\* identifier with those in use, so two uploads may draw the same one
BatchIds == {"b1", "b2"}

\* the context of a new upload with the identifier drawn (server.c:149-168)
NewCtxOf(id) ==
    [ZeroCtx EXCEPT !.batch_id = id,
                    !.parser = parser_init(id),
                    !.progress.status = STATUS_UPLOADING]

\* files of the concurrent uploads: a header, then one or two data lines
PeerFiles ==
    {[lines |-> <<HeaderLine>> \o ls, final_lf |-> TRUE] :
        ls \in LineSeqs({RowValid, RowBadStatus}, MaxRows) \ {<<>>}}

NewPeer(f) ==
    [file |-> f, sent |-> 0, conn |-> "new", ctx |-> ZeroCtx,
     emitted |-> <<>>, flushes |-> <<>>]

\* what the handlers of upload u work on: its own context, the one store
PeerWorld(u) ==
    [ctx |-> peer[u].ctx, db |-> db, faults |-> 0,
     emitted |-> peer[u].emitted, flushes |-> peer[u].flushes]

InstallPeer(u, w, c, n) ==
    /\ peer' = [peer EXCEPT ![u] = [file |-> peer[u].file, sent |-> n,
                                    conn |-> c, ctx |-> w.ctx,
                                    emitted |-> w.emitted,
                                    flushes |-> w.flushes]]
    /\ db' = w.db

\* answer_to_connection, first call of POST /api/upload, on the thread of
\* connection u
PeerNewUpload(u, id) ==
    /\ peer[u].conn = "new"
    /\ LET p == db_update_progress(db, 0, id, NewCtxOf(id).progress)
       IN InstallPeer(u, [PeerWorld(u) EXCEPT !.ctx = NewCtxOf(id),
                                             !.db = p.db], "open", 0)
    /\ UNCHANGED <<uploadVars, faults, exportVars, pool, resp>>

\* answer_to_connection with upload data, on the thread of connection u
PeerUploadData(u, n) ==
    /\ peer[u].conn = "open"
    /\ peer[u].sent < Len(FileOf(peer[u].file))
    /\ LET bytes == FileOf(peer[u].file)
           len == Min(n, Len(bytes) - peer[u].sent)
           chunk == SubSeq(bytes, peer[u].sent + 1, peer[u].sent + len)
           w0 == [PeerWorld(u) EXCEPT !.ctx.progress.status = STATUS_PARSING]
       IN InstallPeer(u, parser_process_chunk(w0, chunk), "open",
                      peer[u].sent + len)
    /\ UNCHANGED <<uploadVars, faults, exportVars, pool, resp>>

\* answer_to_connection at the end of the upload of connection u
PeerUploadFinished(u) ==
    /\ peer[u].conn = "open"
    /\ peer[u].sent = Len(FileOf(peer[u].file))
    /\ LET w0 == parser_finalize(PeerWorld(u))
           w1 == [w0 EXCEPT !.ctx.progress.status = STATUS_COMPLETE]
       IN InstallPeer(u, flush_batches(w1), "responded", peer[u].sent)
    /\ UNCHANGED <<uploadVars, faults, exportVars, pool, resp>>

InitPeers ==
    /\ file \in {f \in Files : f.lines = <<HeaderLine>> /\ f.final_lf}
    /\ sent = 0
    /\ conn = "new"
    /\ ctx = ZeroCtx
    /\ db = EmptyDb
    /\ faults = 0
    /\ emitted = <<>>
    /\ flushes = <<>>
    /\ cuts = {}
    /\ ex = NoExport
    /\ out = <<>>
    /\ last_read = NoRead
    /\ peer \in {<<NewPeer(f), NewPeer(g)>> : f, g \in PeerFiles}
    /\ pool = NoPool
    /\ resp = NoResp

NextPeers ==
    \E u \in 1..2 :
        \/ \E id \in BatchIds : PeerNewUpload(u, id)
        \/ PeerUploadData(u, MaxChunk)
        \/ PeerUploadFinished(u)

SpecPeers == InitPeers /\ [][NextPeers]_vars

\* upload f with identifier id, run alone against an empty store
AloneRun(f, id) ==
    LET p == db_update_progress(EmptyDb, 0, id, NewCtxOf(id).progress)
        w0 == [ctx |-> [NewCtxOf(id) EXCEPT !.progress.status = STATUS_PARSING],
               db |-> p.db, faults |-> 0, emitted |-> <<>>, flushes |-> <<>>]
        w1 == parser_finalize(parser_process_chunk(w0, FileOf(f)))
    IN flush_batches([w1 EXCEPT !.ctx.progress.status = STATUS_COMPLETE])

DocsOf(coll, id) == SelectSeq(coll, LAMBDA d : d.batch_id = id)

\* C22: when both of two concurrent uploads have been answered, each has
\* the callbacks and counters of the same upload run alone, and the
\* records, errors and progress document stored under its batch_id are
\* those of that upload run alone.
C22_UploadsIsolated ==
    (\A u \in 1..2 : peer[u].conn = "responded")
    => \A u \in 1..2 :
         LET id == peer[u].ctx.batch_id
             alone == AloneRun(peer[u].file, id)
         IN /\ peer[u].emitted = alone.emitted
            /\ peer[u].ctx.progress = alone.ctx.progress
            /\ DocsOf(db.shipments, id) = DocsOf(alone.db.shipments, id)
            /\ DocsOf(db.errors, id) = DocsOf(alone.db.errors, id)
            /\ {b \in db.batches : b.batch_id = id} = alone.db.batches

\* the same, for two uploads that drew different identifiers
DistinctIdsIsolated ==
    peer[1].ctx.batch_id /= peer[2].ctx.batch_id => C22_UploadsIsolated

-----------------------------------------------------------------------------
(* db.c: the handles of the client pool                                    *)

\* number of store operations of a run
MaxOps == 3

\* the ways through each store operation: "empty" is the early return on
\* count == 0 or a missing argument, "ok" and "fail" the outcome of the
\* store command
PoolPaths ==
    [db_check_health |-> {"ok", "fail"},
     db_insert_records |-> {"empty", "ok", "fail"},
     db_insert_errors |-> {"empty", "ok", "fail"},
     db_update_progress |-> {"ok", "fail"},
     db_get_progress |-> {"empty", "ok", "fail"},
     db_get_records |-> {"ok"},
     db_query_json |-> {"ok", "fail"},
     db_get_errors_json |-> {"ok", "fail"},
     db_delete_batch |-> {"ok", "fail"},
     db_read_export_chunk |-> {"ok"}]

\* the mongoc_client_pool_pop / _push calls a store operation makes on a
\* way through it, in order
PoolCalls(op, path) ==
    CASE op = "db_check_health" -> <<"pop", "push">>          \* db.c:48-67
      [] op = "db_insert_records" ->                          \* db.c:73-124
            IF path = "empty" THEN <<>> ELSE <<"pop", "push">>
      [] op = "db_insert_errors" ->                           \* db.c:135-187
            IF path = "empty" THEN <<>> ELSE <<"pop", "push">>
      [] op = "db_update_progress" -> <<"pop", "push">>       \* db.c:193-255
      [] op = "db_get_progress" ->                            \* db.c:261-296
            IF path = "empty" THEN <<>> ELSE <<"pop", "push">>
      [] op = "db_get_records" -> <<"pop">>                   \* db.c:301-329
      [] op = "db_query_json" -> <<"pop", "push">>            \* db.c:335-481
      [] op = "db_get_errors_json" -> <<"pop", "push">>       \* db.c:488-543
      [] op = "db_delete_batch" -> <<"pop", "push">>          \* db.c:550-583
      [] op = "db_read_export_chunk" -> <<>>                  \* db.c:628-752
      [] op = "db_open_export_cursor" -> <<"pop">>            \* db.c:605
      [] op = "db_close_export_cursor" -> <<"push">>          \* db.c:759

\* handles checked out after the calls
RECURSIVE AfterCalls(_, _)
AfterCalls(n, calls) ==
    IF calls = <<>> THEN n
    ELSE AfterCalls(IF Head(calls) = "pop" THEN n + 1 ELSE n - 1, Tail(calls))

\* one store operation other than opening or closing an export cursor
StoreOp(op, path) ==
    /\ Len(pool.ops) < MaxOps
    /\ op = "db_read_export_chunk" => pool.cursors > 0
    /\ pool' = [pool EXCEPT !.out = AfterCalls(@, PoolCalls(op, path)),
                            !.ops = Append(@, <<op, path>>)]
    /\ UNCHANGED <<uploadVars, db, faults, exportVars, peer, resp>>

PoolOpenExport ==
    /\ Len(pool.ops) < MaxOps
    /\ pool' = [pool EXCEPT
                  !.out = AfterCalls(@, PoolCalls("db_open_export_cursor", "ok")),
                  !.cursors = @ + 1,
                  !.ops = Append(@, <<"db_open_export_cursor", "ok">>)]
    /\ UNCHANGED <<uploadVars, db, faults, exportVars, peer, resp>>

PoolCloseExport ==
    /\ Len(pool.ops) < MaxOps
    /\ pool.cursors > 0
    /\ pool' = [pool EXCEPT
                  !.out = AfterCalls(@, PoolCalls("db_close_export_cursor", "ok")),
                  !.cursors = @ - 1,
                  !.ops = Append(@, <<"db_close_export_cursor", "ok">>)]
    /\ UNCHANGED <<uploadVars, db, faults, exportVars, peer, resp>>

InitPool ==
    /\ file \in {f \in Files : f.lines = <<HeaderLine>> /\ f.final_lf}
    /\ InitUpload

NextPool ==
    \/ \E op \in DOMAIN PoolPaths : \E path \in PoolPaths[op] :
          StoreOp(op, path)
    \/ PoolOpenExport
    \/ PoolCloseExport

SpecPool == InitPool /\ [][NextPool]_vars

\* C23: after any sequence of store operations the number of pool handles
\* checked out equals the number of export cursors opened and not yet
\* closed.
C23_HandlesBalanced == pool.out = pool.cursors

\* the same for sequences without db_get_records
HandlesBalancedWithoutGetRecords ==
    (\A i \in DOMAIN pool.ops : pool.ops[i][1] /= "db_get_records")
    => pool.out = pool.cursors

-----------------------------------------------------------------------------
(* db.c: deleting a batch                                                  *)

\* a delete that leaves the errors collection alone
db_delete_batch_keep_errors(d, f, batch_id) ==
    LET ok1 == f = 0
        f1 == IF f > 0 THEN f - 1 ELSE 0
        ok3 == f1 = 0
        f3 == IF f1 > 0 THEN f1 - 1 ELSE 0
    IN [ret |-> IF ok1 /\ ok3 THEN 0 ELSE -1,
        db |-> [shipments |-> IF ok1
                              THEN SelectSeq(d.shipments,
                                     LAMBDA x : x.batch_id /= batch_id)
                              ELSE d.shipments,
                errors |-> d.errors,
                batches |-> IF ok3
                            THEN {b \in d.batches : b.batch_id /= batch_id}
                            ELSE d.batches,
                rejected |-> d.rejected \/ f > 0],
        faults |-> f3]

\* db_delete_batch(batch_id): one delete_many with the selector
\* {batch_id: batch_id} on each of shipments, errors and batches; a rejected
\* call leaves its collection as it is and makes the result -1
db_delete_batch(d, f, batch_id) ==
    LET ok1 == f = 0
        f1 == IF f > 0 THEN f - 1 ELSE 0
        ok2 == f1 = 0
        f2 == IF f1 > 0 THEN f1 - 1 ELSE 0
        ok3 == f2 = 0
        f3 == IF f2 > 0 THEN f2 - 1 ELSE 0
    IN [ret |-> IF ok1 /\ ok2 /\ ok3 THEN 0 ELSE -1,
        db |-> [shipments |-> IF ok1
                              THEN SelectSeq(d.shipments,
                                     LAMBDA x : x.batch_id /= batch_id)
                              ELSE d.shipments,
                errors |-> IF ok2
                           THEN SelectSeq(d.errors,
                                  LAMBDA x : x.batch_id /= batch_id)
                           ELSE d.errors,
                batches |-> IF ok3
                            THEN {b \in d.batches : b.batch_id /= batch_id}
                            ELSE d.batches,
                rejected |-> d.rejected \/ f > 0],
        faults |-> f3]

\* largest number of delete_many calls the store rejects
MaxDeleteFaults == 3

\* number of deletes of a run
MaxDeletes == 2

\* DELETE of a batch while the store rejects its first k calls: the store
\* operation, its result kept in the history
DeleteBatch(id, k) ==
    /\ \A u \in 1..2 : peer[u].conn = "responded"
    /\ Len(pool.ops) < MaxDeletes
    /\ LET r == db_delete_batch(db, k, id)
       IN /\ db' = r.db
          /\ pool' = [pool EXCEPT !.ops = Append(@, <<"db_delete_batch",
                                    IF r.ret = 0 THEN "ok" ELSE "fail", id>>)]
    /\ UNCHANGED <<uploadVars, faults, exportVars, peer, resp>>

\* two uploads fill the store, then batches are deleted
InitDelete == InitPeers

NextDelete ==
    \/ NextPeers
    \/ \E id \in BatchIds : \E k \in 0..MaxDeleteFaults : DeleteBatch(id, k)

SpecDelete == InitDelete /\ [][NextDelete]_vars

\* the delete step just taken succeeded for identifier id
DeletedOk(id) ==
    /\ Len(pool'.ops) = Len(pool.ops) + 1
    /\ pool'.ops[Len(pool'.ops)] = <<"db_delete_batch", "ok", id>>

\* C24: a db_delete_batch(b) that succeeds leaves no document with
\* batch_id b in shipments, errors or batches, and leaves the documents of
\* every other batch in the three collections as they were.
C24_DeleteCascades ==
    [][\A id \in BatchIds :
         DeletedOk(id)
         => /\ DocsOf(db'.shipments, id) = <<>>
            /\ DocsOf(db'.errors, id) = <<>>
            /\ {b \in db'.batches : b.batch_id = id} = {}
            /\ \A o \in BatchIds \ {id} :
                  /\ DocsOf(db'.shipments, o) = DocsOf(db.shipments, o)
                  /\ DocsOf(db'.errors, o) = DocsOf(db.errors, o)
                  /\ {b \in db'.batches : b.batch_id = o}
                        = {b \in db.batches : b.batch_id = o}]_vars

\* both uploads were answered, then batch b1 was deleted with success: no
\* document of b1 is left and the other batch has its records, errors and
\* progress document
C24_Witness ==
    /\ \A u \in 1..2 : peer[u].conn = "responded"
    /\ peer[1].ctx.batch_id = "b1"
    /\ peer[1].ctx.progress.valid_rows > 0
    /\ peer[1].ctx.progress.invalid_rows > 0
    /\ pool.ops = << <<"db_delete_batch", "ok", "b1">> >>
    /\ DocsOf(db.shipments, "b1") = <<>>
    /\ DocsOf(db.errors, "b1") = <<>>
    /\ DocsOf(db.shipments, "b2") /= <<>>
    /\ DocsOf(db.errors, "b2") /= <<>>
    /\ {b \in db.batches : b.batch_id = "b2"} /= {}

-----------------------------------------------------------------------------
(* server.c: the GET requests                                              *)

\* size of the buffer of db_get_errors_json
ERRORS_JSON_SIZE == 12

\* number of errors stored for a batch
MaxErrors == 3

\* mongoc_collection_find_with_opts on errors with {"batch_id": batch_id}
\* and "sort": {"row_number": 1}
FindErrors(d, batch_id) ==
    SortByRowNumber({d.errors[i] : i \in
                       {j \in DOMAIN d.errors :
                           d.errors[j].batch_id = batch_id}})

\* the loop of db_get_errors_json: stops at the first document that does
\* not fit the buffer together with the closing bracket
RECURSIVE ErrorsLoop(_, _, _)
ErrorsLoop(json, docs, first) ==
    IF docs = <<>> THEN json
    ELSE LET str == bson_as_relaxed_extended_json(Head(docs))
         IN IF Len(json) + Len(str) + 2 >= ERRORS_JSON_SIZE
            THEN json
            ELSE ErrorsLoop(json \o (IF first THEN <<>> ELSE <<",">>) \o str,
                            Tail(docs), FALSE)

\* db_get_errors_json(batch_id)
db_get_errors_json(d, batch_id) ==
    ErrorsLoop(<<"[">>, FindErrors(d, batch_id), TRUE) \o <<"]">>

\* db_check_health(): the ping, which a store that rejects calls fails
db_check_health(f) == f = 0

\* the urls requested
Urls == {"/api/health", "/api/errors", "/api/batches"}

\* answer_to_connection for a GET request to one of these urls: the test
\* for /api/health, then the prefix tests for /api/status/, /api/records
\* and /api/export, which none of them passes, then the default answer
answer_to_connection(url, batch_id) ==
    IF url = "/api/health"
    THEN [url |-> url, batch_id |-> batch_id, status |-> MHD_HTTP_OK,
          body |-> <<"{\"status\": \"healthy\", \"mongodb\": \"connected\"}">>]
    ELSE [url |-> url, batch_id |-> batch_id, status |-> MHD_HTTP_NOT_FOUND,
          body |-> <<"{\"error\": \"Not Found\"}">>]

\* a GET request
Get(url, batch_id) ==
    /\ resp' = answer_to_connection(url, batch_id)
    /\ UNCHANGED <<uploadVars, db, faults, exportVars, peer, pool>>

ErrorOfRow(batch_id, n) ==
    ErrorDoc(batch_id, [row_number |-> n, field |-> "status",
                        actual |-> <<>>, batch_id |-> batch_id])

\* the sequences without repetition of members of S
Arrangements(S) ==
    {q \in UNION {[1..k -> S] : k \in 0..Cardinality(S)} :
        \A i, j \in DOMAIN q : i /= j => q[i] /= q[j]}

\* stores with errors of batch b1 in any order and one error of batch b2
ErrorStores ==
    {[EmptyDb EXCEPT !.errors = q \o tail] :
        q \in Arrangements({ErrorOfRow("b1", n) : n \in 1..MaxErrors}),
        tail \in {<<>>, <<ErrorOfRow("b2", 1)>>}}

InitHttp ==
    /\ file \in {f \in Files : f.lines = <<HeaderLine>> /\ f.final_lf}
    /\ sent = 0
    /\ conn = "new"
    /\ ctx = ZeroCtx
    /\ db \in ErrorStores
    /\ faults \in {0, 1}
    /\ emitted = <<>>
    /\ flushes = <<>>
    /\ cuts = {}
    /\ ex = NoExport
    /\ out = <<>>
    /\ last_read = NoRead
    /\ peer = NoPeers
    /\ pool = NoPool
    /\ resp = NoResp

NextHttp == \E url \in Urls : \E id \in BatchIds : Get(url, id)

SpecHttp == InitHttp /\ [][NextHttp]_vars

\* the array of all the errors of a batch, in ascending row_number
ErrorsArray(d, batch_id) ==
    <<"[">> \o JoinDocs(FindErrors(d, batch_id), <<",">>) \o <<"]">>

\* C25: GET /api/errors?batch_id=b is answered with status 200 and the
\* JSON array of every error stored for b, in ascending row_number.
C25_ErrorsListed ==
    resp.url = "/api/errors"
    => /\ resp.status = MHD_HTTP_OK
       /\ resp.body = ErrorsArray(db, resp.batch_id)

\* db_get_errors_json returns the array of every error stored for a batch
ErrorsJsonComplete ==
    \A id \in BatchIds : db_get_errors_json(db, id) = ErrorsArray(db, id)

\* C26: GET /api/health is answered with status 200 if and only if the
\* store ping succeeds.
C26_HealthReflectsPing ==
    resp.url = "/api/health"
    => (resp.status = MHD_HTTP_OK <=> db_check_health(faults))

-----------------------------------------------------------------------------
(* Uploads whose first line may be unparseable                             *)

\* files with or without a parseable first line, then at most MaxRows lines
FirstRowFiles ==
    {[lines |-> <<first>> \o ls, final_lf |-> t] :
        first \in {HeaderLine, RowShort},
        ls \in LineSeqs({RowValid, RowShort}, MaxRows),
        t \in BOOLEAN}

InitFirstRow ==
    /\ file \in FirstRowFiles
    /\ InitUpload

NextFirstRow ==
    \/ NewUpload
    \/ \E n \in {MaxChunk \div 2, MaxChunk} : UploadData(n)
    \/ UploadFinished
    \/ RequestCompleted

SpecFirstRow == InitFirstRow /\ [][NextFirstRow]_vars

\* the first line of the file does not parse
FirstRowUnparseable ==
    parse_csv_line(file.lines[1], EmptyRecord(1, BatchId)).ret = -1

\* C27: an upload whose first logical row is unparseable is answered with
\* status 400; an upload whose first row parses is not, whatever the later
\* rows are.
C27_FirstRowDecidesFailure ==
    conn \in {"responded", "closed"}
    => (resp.status = 400 <=> FirstRowUnparseable)

\* an upload is never answered with status 400 because of a later row
LaterRowsNeverFail ==
    conn \in {"responded", "closed"} /\ ~FirstRowUnparseable
    => resp.status /= 400

\* the records the parser handed over, in order
EmittedRecords == SelectSeq(emitted, LAMBDA e : e.kind = "record")

\* C28: every record the parser emitted has row_number >= 1 and no two
\* records of the upload have the same row_number, however the file was
\* cut into chunks.
C28_RowNumbersDistinct ==
    /\ \A i \in DOMAIN EmittedRecords :
          EmittedRecords[i].record.row_number >= 1
    /\ \A i, j \in DOMAIN EmittedRecords :
          i /= j => EmittedRecords[i].record.row_number
                       /= EmittedRecords[j].record.row_number

\* two records were emitted from a file cut inside a quoted field
C28_Witness ==
    /\ Len(EmittedRecords) = 2
    /\ "quoted" \in cuts
    /\ sent = Len(FileBytes)

-----------------------------------------------------------------------------
(* Lines longer than the line buffer                                       *)

\* n filler bytes
Pad(n) == [i \in 1..n |-> "x"]

\* a line longer than the buffer whose end has the columns of a valid row
LongRowValidTail == Pad(MAX_LINE_LENGTH) \o RowValid

\* a line longer than the buffer without commas
LongRowJunk == Pad(MAX_LINE_LENGTH + 8)

LongLines == {LongRowValidTail, LongRowJunk}

\* files of at most MaxRows lines, long ones among them
LongFiles ==
    {[lines |-> ls, final_lf |-> TRUE] :
        ls \in LineSeqs(LongLines \cup {HeaderLine, RowValid}, MaxRows)}

InitLong ==
    /\ file \in LongFiles
    /\ InitUpload

NextLong ==
    \/ NewUpload
    \/ \E n \in {MaxChunk \div 4, MaxChunk \div 2, MaxChunk} : UploadData(n)
    \/ UploadFinished

SpecLong == InitLong /\ [][NextLong]_vars

\* what parse_csv_line makes of a line, without the row number
ContentOf(line) ==
    parse_csv_line(line, EmptyRecord(0, BatchId))

\* the contents of the records of the lines that fit the buffer, in order
RECURSIVE ShortLineRecords(_)
ShortLineRecords(ls) ==
    IF ls = <<>> THEN <<>>
    ELSE (IF Head(ls) \notin LongLines /\ ContentOf(Head(ls)).ret = 0
          THEN <<ContentOf(Head(ls)).record>> ELSE <<>>)
         \o ShortLineRecords(Tail(ls))

TooLongErrors ==
    SelectSeq(emitted, LAMBDA e : e.kind = "error" /\ e.msg = "Line too long")

\* C29: when the whole file was parsed, each line longer than the buffer
\* has produced exactly one line-too-long error and nothing else, and the
\* records emitted are those of the other lines, in order.
C29_LongLineOneError ==
    sent = Len(FileBytes)
    => /\ Len(TooLongErrors)
            = Cardinality({i \in DOMAIN file.lines :
                              file.lines[i] \in LongLines})
       /\ Len(emitted) = Len(file.lines)
       /\ [i \in DOMAIN EmittedRecords |->
              [EmittedRecords[i].record EXCEPT !.row_number = 0]]
            = ShortLineRecords(file.lines)

\* the line after a long line is parsed as the same line in a file of its
\* own is
ResyncAfterLongLine ==
    (/\ sent = Len(FileBytes)
     /\ Len(file.lines) = 2
     /\ file.lines[1] \in LongLines
     /\ file.lines[2] \notin LongLines)
    => /\ emitted[Len(emitted)].kind = "record"
       /\ [emitted[Len(emitted)].record EXCEPT !.row_number = 0]
            = ContentOf(file.lines[2]).record

-----------------------------------------------------------------------------
(* Rows with malformed quoting                                             *)

\* the valid row with one quote inside its unquoted origin: N"YC
RowOddQuote ==
    SubSeq(RowValid, 1, 12) \o <<QUOTE>> \o SubSeq(RowValid, 13, Len(RowValid))

\* the valid row with two quotes inside its unquoted origin: N"Y"C
RowInnerQuotes ==
    SubSeq(RowValid, 1, 12) \o <<QUOTE>> \o SubSeq(RowValid, 13, 13)
        \o <<QUOTE>> \o SubSeq(RowValid, 14, Len(RowValid))

MalformedRows == {RowOddQuote, RowInnerQuotes}

\* files of at most MaxRows + 1 lines, malformed ones among them
QuoteFiles ==
    {[lines |-> ls, final_lf |-> TRUE] :
        ls \in LineSeqs(MalformedRows \cup {RowValid}, MaxRows + 1)}

InitQuote ==
    /\ file \in QuoteFiles
    /\ InitUpload

NextQuote ==
    \/ NewUpload
    \/ \E n \in {MaxChunk \div 4, MaxChunk \div 2, MaxChunk} : UploadData(n)
    \/ UploadFinished

SpecQuote == InitQuote /\ [][NextQuote]_vars

\* C30: when the whole file was parsed, the parser has made one callback
\* per line, numbered as the line: an error for a line with malformed
\* quoting, and for every other line the record of that line alone.
C30_MalformedQuotingIsolated ==
    sent = Len(FileBytes)
    => /\ Len(emitted) = Len(file.lines)
       /\ \A i \in DOMAIN emitted :
             /\ emitted[i].row = i
             /\ IF file.lines[i] \in MalformedRows
                THEN emitted[i].kind = "error"
                ELSE /\ emitted[i].kind = "record"
                     /\ [emitted[i].record EXCEPT !.row_number = 0]
                          = ContentOf(file.lines[i]).record

\* the same for files whose malformed rows have an even number of quotes:
\* every line is emitted on its own, the malformed ones as records
InnerQuotesAccepted ==
    (sent = Len(FileBytes)
        /\ \A i \in DOMAIN file.lines : file.lines[i] /= RowOddQuote)
    => /\ Len(emitted) = Len(file.lines)
       /\ \A i \in DOMAIN emitted :
             /\ emitted[i].row = i
             /\ emitted[i].kind = "record"
             /\ [emitted[i].record EXCEPT !.row_number = 0]
                  = ContentOf(file.lines[i]).record

-----------------------------------------------------------------------------
(* Rows with text in the numeric columns                                   *)

\* texts of a numeric column: a number, letters, nothing, a number followed
\* by a letter
NumberTexts ==
    << <<"1", ".", "5">>,
       <<"a", "b", "c">>,
       <<>>,
       <<"2", "x">> >>

\* the valid row with the texts t of the columns weight_kg, length_cm,
\* width_cm and height_cm
NumericRow(t) ==
    JoinFields(<<TrackingMenu[1], OriginMenu[1], DestinationMenu[1],
                 NumberTexts[t[1]], NumberTexts[t[2]], NumberTexts[t[3]],
                 NumberTexts[t[4]], DateMenu[1], StatusMenu[1]>>)

\* the choices of the four texts: at most two columns are not "1.5"
NumericChoices ==
    {t \in [1..4 -> 1..Len(NumberTexts)] :
        Cardinality({k \in 1..4 : t[k] /= 1}) <= 2}

NumericFiles ==
    {[lines |-> <<NumericRow(t)>>, final_lf |-> TRUE] : t \in NumericChoices}

InitNumeric ==
    /\ file \in NumericFiles
    /\ InitUpload

NextNumeric ==
    \/ NewUpload
    \/ UploadData(MaxChunk)
    \/ UploadFinished

SpecNumeric == InitNumeric /\ [][NextNumeric]_vars

\* a decimal number: an optional sign, digits with at most one point among
\* them, at least one digit
IsNumberText(q) ==
    LET body == IF q /= <<>> /\ q[1] \in {"-", "+"} THEN Tail(q) ELSE q
    IN /\ \E i \in DOMAIN body : isdigit(body[i])
       /\ \A i \in DOMAIN body : isdigit(body[i]) \/ body[i] = "."
       /\ Cardinality({i \in DOMAIN body : body[i] = "."}) <= 1

\* the texts of the columns 4 to 7 of the line
NumericColumns(line) ==
    LET fields == SplitFields(line, 1, <<>>)
    IN [k \in 1..4 |-> fields[k + 3]]

\* C31: when the whole file was parsed, a row with a numeric column that is
\* not a number has been reported through on_error and has not been
\* delivered through on_record.
C31_NonNumericIsStructural ==
    sent = Len(FileBytes)
    => \A k \in DOMAIN file.lines :
         (\E c \in 1..4 : ~IsNumberText(NumericColumns(file.lines[k])[c]))
         => /\ \E i \in DOMAIN emitted :
                  emitted[i].kind = "error" /\ emitted[i].row = k
            /\ \A i \in DOMAIN emitted :
                  emitted[i].kind = "record" => emitted[i].row /= k

\* what happens: the row is delivered with the value atof gives the text,
\* 0 for "abc" and for the empty text, 2 for "2x"
NonNumericDeliveredAsAtof ==
    sent = Len(FileBytes)
    => /\ Len(emitted) = 1
       /\ emitted[1].kind = "record"
       /\ LET t == NumericColumns(file.lines[1])
              r == emitted[1].record
          IN /\ r.weight_kg = atof(t[1])
             /\ r.length_cm = atof(t[2])
             /\ r.width_cm = atof(t[3])
             /\ r.height_cm = atof(t[4])
             /\ \A c \in 1..4 :
                   t[c] \in {NumberTexts[2], NumberTexts[3]} => atof(t[c]) = 0

-----------------------------------------------------------------------------
(* Line feeds inside quoted fields                                         *)

\* a line feed right after an escaped quote, inside a quoted field
RowEscapedLf ==
    <<QUOTE, "x", QUOTE, QUOTE, LF, "y", QUOTE, ",", "b", ",", "c", ",", "1",
      ",", "0", ",", "0", ",", "0">>

QuotedLfLines == {RowScenario, RowMultiline, RowEscapedLf}

QuotedLfFiles ==
    {[lines |-> ls, final_lf |-> TRUE] :
        ls \in LineSeqs(QuotedLfLines, MaxLines) \ {<<>>}}

InitQuotedLf ==
    /\ file \in QuotedLfFiles
    /\ InitUpload

NextQuotedLf ==
    \/ NewUpload
    \/ \E n \in 1..MaxSlice : UploadData(n)

SpecQuotedLf == InitQuotedLf /\ [][NextQuotedLf]_vars

RECURSIVE RecordEnd(_, _, _)
\* where the record that starts at byte i ends, by the quote state machine:
\* outside a quoted field a quote opens one and a line feed ends the
\* record; inside, two quotes are an escaped quote and one quote closes the
\* field; 0 when no line feed ends it
RecordEnd(bytes, i, inside) ==
    IF i > Len(bytes) THEN 0
    ELSE IF inside
    THEN IF bytes[i] = QUOTE /\ i < Len(bytes) /\ bytes[i + 1] = QUOTE
         THEN RecordEnd(bytes, i + 2, TRUE)
         ELSE RecordEnd(bytes, i + 1, bytes[i] /= QUOTE)
    ELSE IF bytes[i] = LF THEN i
         ELSE RecordEnd(bytes, i + 1, bytes[i] = QUOTE)

RECURSIVE ScanRecords(_, _)
\* the records of a byte stream from byte i on, without their line feeds
ScanRecords(bytes, i) ==
    LET e == RecordEnd(bytes, i, FALSE)
    IN IF e = 0 THEN <<>>
       ELSE <<SubSeq(bytes, i, e - 1)>> \o ScanRecords(bytes, e + 1)

HasLf(q) == \E i \in DOMAIN q : q[i] = LF

\* C32: when the whole file was parsed, the parser has emitted one record
\* per record of the quote state machine, in order: a line feed inside a
\* quoted field (also right after an escaped quote) has not ended the
\* record and is in the field value, and every line feed outside quotes
\* has ended one.
C32_LfEndsRecordOutsideQuotes ==
    sent = Len(FileBytes)
    => LET recs == ScanRecords(FileBytes, 1)
       IN /\ Len(emitted) = Len(recs)
          /\ ctx.parser.buffer = <<>>
          /\ \A i \in DOMAIN emitted :
                /\ emitted[i].kind = "record"
                /\ emitted[i].row = i
                /\ [emitted[i].record EXCEPT !.row_number = 0]
                     = ContentOf(recs[i]).record
                /\ HasLf(recs[i]) <=> HasLf(emitted[i].record.tracking_number)

\* the row with a line feed after an escaped quote, then the row with a
\* line feed in a quoted field, fed in chunks that were cut inside quotes,
\* came out as two records with the line feeds in their values
C32_Witness ==
    /\ sent = Len(FileBytes)
    /\ file.lines = <<RowEscapedLf, RowMultiline>>
    /\ "quoted" \in cuts
    /\ Len(emitted) = 2
    /\ emitted[1].record.tracking_number = <<"x", QUOTE, LF, "y">>
    /\ emitted[2].record.tracking_number = <<"p", LF, "q">>

\* C33: each pending buffer holds fewer than BATCH_CAPACITY items whenever
\* a handler has returned (a buffer that reaches the capacity is flushed in
\* the same callback), no flush submits more than BATCH_CAPACITY records or
\* errors, and every flush before the end of the upload was made with a
\* full buffer.
C33_BuffersBounded ==
    /\ Len(ctx.record_batch) < BATCH_CAPACITY
    /\ Len(ctx.error_batch) < BATCH_CAPACITY
    /\ \A i \in DOMAIN flushes :
          /\ Len(flushes[i].rows) <= BATCH_CAPACITY
          /\ Len(flushes[i].error_rows) <= BATCH_CAPACITY
          /\ (i < Len(flushes) \/ conn = "open")
                => \/ Len(flushes[i].rows) = BATCH_CAPACITY
                   \/ Len(flushes[i].error_rows) = BATCH_CAPACITY

\* the records buffer was flushed at its capacity while the upload was
\* going on, together with the one error pending
C33_Witness ==
    /\ conn = "open"
    /\ Len(flushes) = 1
    /\ Len(flushes[1].rows) = BATCH_CAPACITY
    /\ Len(flushes[1].error_rows) = 1
    /\ ctx.record_batch = <<>>

\* the progress document db_update_progress stores for a snapshot
ProgressDoc(batch_id, progress) ==
    [batch_id |-> batch_id,
     total_rows |-> progress.total_rows,
     processed_rows |-> progress.processed_rows,
     valid_rows |-> progress.valid_rows,
     invalid_rows |-> progress.invalid_rows,
     status |-> progress.status]

\* C34: every flush, at capacity or at the end of the upload, has made its
\* progress upsert, and when the upsert of the last flush succeeded the one
\* progress document of the batch holds the counters and the status the
\* BatchProgress had at that flush.
C34_FlushUpsertsProgress ==
    /\ \A i \in DOMAIN flushes : flushes[i].p_ret \in {0, -1}
    /\ (flushes /= <<>> /\ flushes[Len(flushes)].p_ret = 0)
         => StoredProgress
              = {ProgressDoc(BatchId, flushes[Len(flushes)].progress)}

\* a flush at capacity in the middle of the upload stored the counters of
\* that moment, the status being parsing
C34_Witness ==
    /\ conn = "open"
    /\ Len(flushes) = 1
    /\ flushes[1].p_ret = 0
    /\ \E b \in StoredProgress :
          /\ b.processed_rows = BATCH_CAPACITY + 1
          /\ b.status = STATUS_PARSING

\* C35: in every state of an export, a read call with any buffer size from
\* 0 on writes at most max bytes and returns at most max (the number of
\* bytes written, or -1), and overflow held between calls has a write
\* offset strictly below its length.
C35_ReadWithinBuffer ==
    ex.open
    => /\ ex.pending_data /= <<>>
            => ex.pending_written < Len(ex.pending_data)
       /\ \A max \in {0} \cup BufSizes :
             LET r == db_read_export_chunk(ex, max)
             IN /\ Len(r.bytes) <= max
                /\ r.ret <= max
                /\ r.ret = -1 \/ r.ret = Len(r.bytes)
                /\ r.ctx.pending_data /= <<>>
                     => r.ctx.pending_written < Len(r.ctx.pending_data)

\* a read call filled its buffer with the start of a document and holds
\* the rest as overflow
C35_Witness ==
    /\ ex.open
    /\ ex.pending_data /= <<>>
    /\ ex.pending_written > 0
    /\ last_read.ret = last_read.max
    /\ Len(last_read.bytes) = last_read.max
    /\ out /= <<>>

\* C36: the export reader reaches the finished state after finitely many
\* calls with max >= 1.  The call is a function of the export context
\* alone, so a call on an unfinished reader that hands the context back
\* exactly as it found it can be repeated forever without end-of-stream:
\* every call with max >= 1 on an unfinished reader must change the
\* context.
C36_ReaderFinishes ==
    (ex.open /\ ~ex.finished)
    => \A max \in BufSizes : db_read_export_chunk(ex, max).ctx /= ex

\* the calls that can stall are those of a JSON export with a one-byte
\* buffer before the first document: each returns "[" again
C36_StallOnlyJsonOneByte ==
    (ex.open /\ ~ex.finished)
    => \A max \in BufSizes :
          LET r == db_read_export_chunk(ex, max)
          IN r.ctx = ex
               => /\ max = 1 /\ ~ex.is_csv /\ ex.first_record
                  /\ r.ret = 1 /\ r.bytes = <<"[">>

\* a client that read a JSON export one byte at a time and received
\* nothing but "[" so far
C36_Stalled ==
    /\ ex.open /\ ~ex.finished /\ ~ex.is_csv
    /\ Len(out) >= 3
    /\ \A i \in DOMAIN out : out[i] = "["

-----------------------------------------------------------------------------
(* Uploads to a store that is down                                         *)

\* store calls rejected in a row by a store that is down: more than one
\* upload makes (5 attempts of the first upsert, then 15 per flush)
Outage == 40

\* a header line and two data lines
OutageFiles ==
    {[lines |-> <<HeaderLine, a, b>>, final_lf |-> t] :
        a \in DataLines, b \in DataLines, t \in BOOLEAN}

InitOutage ==
    /\ file \in OutageFiles
    /\ InitUpload

NextOutage ==
    \/ NewUpload
    \/ \E n \in {MaxChunk \div 2, MaxChunk} : UploadData(n)
    \/ UploadFinished
    \/ RequestCompleted
    \/ StoreFault(Outage)

SpecOutage == InitOutage /\ [][NextOutage]_vars

\* attempts of the progress upsert of a flush: one per sleep, and the
\* accepted one
ProgressAttempts(e) == Len(e.p_sleeps) + (IF e.p_ret = 0 THEN 1 ELSE 0)

\* C37: once the end of an upload is signalled its handling finishes and
\* the response carries the batch_id, even if the store rejects every
\* call; the record insert, the error insert and the progress upsert of a
\* flush each give up after at most 5 attempts.
C37_UploadAlwaysResponds ==
    /\ \A i \in DOMAIN flushes :
          /\ flushes[i].rec_attempts <= 5
          /\ flushes[i].err_attempts <= 5
          /\ ProgressAttempts(flushes[i]) <= 5
    /\ (conn = "open" /\ sent = Len(FileBytes)) => ENABLED UploadFinished
    /\ conn = "responded"
         => /\ resp.status = MHD_HTTP_OK
            /\ resp.batch_id = BatchId
            /\ resp.batch_id = ctx.batch_id
            /\ flushes /= <<>>

\* an upload answered although the store rejected every call: nothing was
\* stored, and each of the three operations of the last flush was tried
\* 5 times
C37_Witness ==
    /\ conn = "responded"
    /\ resp.batch_id = BatchId
    /\ db.shipments = <<>> /\ db.errors = <<>> /\ db.batches = {}
    /\ faults > 0
    /\ LET e == flushes[Len(flushes)]
       IN /\ e.rec_ret = -1 /\ e.rec_attempts = 5
          /\ e.err_ret = -1 /\ e.err_attempts = 5
          /\ e.p_ret = -1 /\ ProgressAttempts(e) = 5

\* the documents of the upload's batch that carry row number n
StoredAs(coll, n) ==
    {k \in DOMAIN coll : coll[k].batch_id = BatchId /\ coll[k].row_number = n}

\* row n is stored once, in one of the two collections
InOneCollection(n) ==
    Cardinality(StoredAs(db.shipments, n)) + Cardinality(StoredAs(db.errors, n)) = 1

\* C38: after an upload that reached its end with a store that accepted
\* every call, every row the pipeline handled (handed to on_record_parsed
\* or to on_parser_error) is in exactly one of shipments and errors, and
\* the number of error documents of the batch equals the final
\* invalid_rows.
C38_EveryRowInOneCollection ==
    (conn = "responded" /\ ~db.rejected)
    => /\ \A i \in DOMAIN emitted : InOneCollection(emitted[i].row)
       /\ Cardinality({k \in DOMAIN db.errors : db.errors[k].batch_id = BatchId})
            = ctx.progress.invalid_rows

\* the same for the rows that parsed: what on_record_parsed takes is
\* stored once, and the error documents are as many as invalid_rows
C38_ParsedRowsInOneCollection ==
    (conn = "responded" /\ ~db.rejected)
    => /\ \A i \in DOMAIN emitted :
             emitted[i].kind = "record" => InOneCollection(emitted[i].row)
       /\ Cardinality({k \in DOMAIN db.errors : db.errors[k].batch_id = BatchId})
            = ctx.progress.invalid_rows

\* an upload with a row that did not parse, answered by a store that
\* accepted every call: the row is in neither collection
C38_RowInNeither ==
    /\ conn = "responded" /\ ~db.rejected
    /\ \E i \in DOMAIN emitted :
          /\ emitted[i].kind = "error"
          /\ StoredAs(db.shipments, emitted[i].row) = {}
          /\ StoredAs(db.errors, emitted[i].row) = {}

-----------------------------------------------------------------------------
(* Uploads long enough for several flushes of records                      *)

\* a header line and four data lines, each valid or with an unknown status
FlushFiles ==
    {[lines |-> <<HeaderLine, a, b, c, d>>, final_lf |-> TRUE] :
        a \in {RowValid, RowBadStatus}, b \in {RowValid, RowBadStatus},
        c \in {RowValid, RowBadStatus}, d \in {RowValid, RowBadStatus}}

InitFlushes ==
    /\ file \in FlushFiles
    /\ InitUpload

NextFlushes ==
    \/ NewUpload
    \/ \E n \in {MaxChunk \div 2, MaxChunk} : UploadData(n)
    \/ UploadFinished
    \/ \E k \in {1, MaxFaults} : StoreFault(k)

SpecFlushes == InitFlushes /\ [][NextFlushes]_vars

\* C39: within one batch the records submitted to the store, taken over
\* all flushes in order, have strictly increasing row numbers; hence no
\* record is submitted in two flushes.
C39_SubmittedRowsIncrease ==
    \A i \in DOMAIN flushes : \A j \in i..Len(flushes) :
       \A a \in DOMAIN flushes[i].rows : \A b \in DOMAIN flushes[j].rows :
          (i < j \/ a < b) => flushes[i].rows[a] < flushes[j].rows[b]

\* an upload answered after two flushes that each submitted records, the
\* first of them rejected by the store
C39_Witness ==
    /\ conn = "responded"
    /\ \E i \in DOMAIN flushes : \E j \in DOMAIN flushes :
          /\ i < j
          /\ Len(flushes[i].rows) > 1
          /\ flushes[i].rec_ret = -1
          /\ flushes[j].rows /= <<>>

\* the sleeps of the store operations of flush entry e that failed
FailedSleeps(e) ==
    {q \in {<<e.rec_ret, e.rec_sleeps>>, <<e.err_ret, e.err_sleeps>>,
            <<e.p_ret, e.p_sleeps>>} : q[1] = -1}

\* C40: a store operation that fails on all 5 attempts sleeps between the
\* attempts only, 1, 2, 4 and 8 seconds (15 s), and not after the fifth.
C40_NoSleepAfterLastAttempt ==
    \A i \in DOMAIN flushes :
       \A q \in FailedSleeps(flushes[i]) : q[2] = <<1, 2, 4, 8>>

\* what the operations do: a sleep after every failed attempt, the fifth
\* included, 31 seconds in all
C40_SleepsAfterEveryFailure ==
    \A i \in DOMAIN flushes :
       \A q \in FailedSleeps(flushes[i]) : q[2] = <<1, 2, 4, 8, 16>>

\* a flush whose record insert failed on all 5 attempts
C40_FailedInsert ==
    \E i \in DOMAIN flushes :
       flushes[i].rec_ret = -1 /\ flushes[i].rec_attempts = 5

====
